---- MODULE Spec2Model ----
(***************************************************************************)
(* Request-trust control plane of ALL-PDF-TOOLS.                           *)
(*                                                                         *)
(*   SpecLimiter    the browser-side RateLimiter       (src/js/security.js) *)
(*   SpecHumanness  BotDetector signals and score      (src/js/security.js) *)
(*   SpecActions    Security.checkAction               (src/js/security.js) *)
(*   SpecRegistry   the block registry and its timers  (botDetection.js)    *)
(*   SpecAdmin      the protected block/unblock routes (routes/security.js) *)
(*   SpecGateway    botDetection on every request      (botDetection.js)    *)
(*   SpecChain      globalLimiter, requestLogger, botDetection (server.js)  *)
(*   SpecBurst      the same chain without the response log                 *)
(*                                                                         *)
(* Times are in milliseconds, as Date.now() gives them.  The time          *)
(* constants keep their source values; the request-count thresholds are    *)
(* scaled down (each is a bound of the model, its source value is given    *)
(* next to it) so that the histories stay explorable.                      *)
(***************************************************************************)
EXTENDS Integers, Sequences, FiniteSets, TLC

\* JavaScript null / undefined for a number-valued field.
null == 0 - 1

\* Math.floor(a / b) for a >= 0, b > 0.
Floor(a, b) == a \div b

\* Math.ceil(a / b) for a >= 0, b > 0.
Ceil(a, b) == (a + b - 1) \div b

(***************************************************************************)
(* SecurityConfig (src/js/security.js:9-17)                                *)
(***************************************************************************)
RATE_LIMIT_WINDOW == 60000
BLOCK_DURATION == 300000
\* source value 30 (src/js/security.js:11), scaled
MAX_REQUESTS_PER_WINDOW == 3

\* Number of checkLimit calls followed since the last reset.
MaxCalls == 6

\* The instants at which the page may call the limiter: the window and block
\* boundaries of a history that starts at 0, and points strictly inside them.
LimiterTimes ==
    {0, 500, 30000,
     RATE_LIMIT_WINDOW - 1, RATE_LIMIT_WINDOW,
     BLOCK_DURATION - 1, BLOCK_DURATION,
     BLOCK_DURATION + 30000, BLOCK_DURATION + RATE_LIMIT_WINDOW}

VARIABLES
    now,            \* Date.now()
    requests,       \* RateLimiter.requests
    blocked,        \* RateLimiter.blocked
    blockedUntil,   \* RateLimiter.blockedUntil
    result,         \* what the last RateLimiter call returned
    securityLog,    \* Security.securityLog, as the types of its events
    calls,          \* history: <<[t, allowed]>> of the checkLimit calls since the last reset
    violatedAt      \* history: instant of the last rate_limited return since the last reset, or null

limiterVars == <<requests, blocked, blockedUntil, result, securityLog, calls, violatedAt>>

VARIABLES
    initialized,    \* Security.initialized
    checks,         \* BotDetector.checks
    score,          \* BotDetector.score
    mouseMoves,     \* the mouseMoves counter of BotDetector.init
    dwellDue,       \* when the setTimeout of BotDetector.init is due, or null
    sessionStored,  \* sessionStorage holds pdftools_session_id
    honeypot,       \* value of the honeypot field, or NoField
    verdict         \* what the last Security.checkAction returned, with what it was asked

pageVars ==
    <<initialized, checks, score, mouseMoves, dwellDue, sessionStored, honeypot, verdict>>

browserVars == <<limiterVars, pageVars>>

VARIABLES
    hits,             \* globalLimiter's store: ip -> [count, resetTime]
    blockedIPs,       \* botDetection.js blockedIPs
    timers,           \* pending setTimeout callbacks of blockIP / manualBlockIP: [ip, due]
    ipRequestCounts,  \* botDetection.js ipRequestCounts: ip -> [count, firstRequest, lastRequest]
    cleanupDue,       \* next run of the setInterval cleanup
    response,         \* the response to the last request
    request,          \* the last request: [ip, ua, referer, path, headers]
    botInfo,          \* req.botInfo of the last request, NoBotInfo if none was attached
    posted,           \* the last call of a protected route and its answer, with the
                      \* instant and the registry it found:
                      \* [route, auth, body, status, error, ran, at, before]
    lastOp,           \* history: the last event of the server
    pre,              \* history: what held for the last request when it arrived
    lastBlock,        \* history: ip -> [at, dur] of the last block call for ip, unblock included
    recent,           \* history: ip -> instants of the last requests of ip that botDetection counted
    prevReq,          \* history: ip -> [t, by] of the request of ip before its last one
    lastReqAt         \* history: ip -> instant of the last request of ip

gatewayVars ==
    <<hits, blockedIPs, timers, ipRequestCounts, cleanupDue, response, request, botInfo,
      posted, lastOp, pre,
      lastBlock, recent, prevReq, lastReqAt>>

VARIABLES
    file,        \* content of data/analytics.json: Missing, Corrupt or a document
    today,       \* the calendar date, as a day number (getTodayKey)
    inflight,    \* POST /track requests received and not yet handled: event -> number
    outcome,     \* how the last operation on the store ended: [op, status]
    held,        \* the document the admin got from the last GET /export, or NoDoc
    received,    \* number of POST /track requests received so far
    handled,     \* history: event, date -> number of POST /track handled with success
    atExport     \* history: [snap, ids, fresh] of the store at the last GET /export

analyticsVars == <<file, today, inflight, outcome, held, received, handled, atExport>>

VARIABLES
    local,          \* the browser's localStorage: [analytics, visitor]
    mirrorCalls,    \* number of calls made on the browser-side Analytics object
    mirrorOutcome   \* how the last call on it ended: [op, ok]

mirrorVars == <<local, mirrorCalls, mirrorOutcome>>

VARIABLES
    requestLogs,   \* requestLogger's in-memory log, oldest entry first
    open,          \* ids of the requests the logger has seen whose response has not finished
    started,       \* number of requests the logger has seen
    appends,       \* entries whose fs.appendFile has been started and has not called back
    logFile,       \* the lines of logs/requests.log
    writeErrors,   \* ids of the entries whose append failed (console.error)
    reply,         \* what the last query of the log returned: [op, arg, logs, status, count],
                   \* with the log it was asked of
    entries,       \* the logEntry objects requestLogger has made, by id:
                   \* [timestamp, ip, path, query, userAgent, responseTime]
    warnings,      \* ids of the entries the finish handler has warned about (console.warn)
    finished       \* history: every entry in the order the responses finished

auditVars ==
    <<requestLogs, open, started, appends, logFile, writeErrors, reply, entries, warnings,
      finished>>

VARIABLES
    arrived,     \* number of requests that have reached the server
    parsing,     \* requests globalLimiter let through whose body is being read: [n, ua]
    answer,      \* logger id -> status code of the responses written and not yet finished
    responses    \* history: [n, id, t, status, by] of every response written; id is
                 \* the id requestLogger gave the request, 0 if it never saw it

chainVars == <<arrived, parsing, answer, responses>>

VARIABLES
    adminFile,    \* data/admin.json: [loginAttempts, lockedUntil, lastLogin]
    authHits,     \* authLimiter's store: ip -> [count, resetTime]
    comparing,    \* POST /login handlers waiting for bcrypt.compare:
                  \* [n, password, adminData, found], adminData being the handler's copy
                  \* and found what it read from the file
    logins,       \* number of POST /login requests received
    loginReply,   \* the last response of POST /login:
                  \* [n, status, by, token, attemptsRemaining, at, found]
    evaluated     \* history: wrong passwords compared since loginAttempts was last
                  \* written as 0

authVars == <<adminFile, authHits, comparing, logins, loginReply, evaluated>>

VARIABLES
    uncleaned,     \* history: [blockedIPs, timers, ipRequestCounts] of botDetection.js as
                   \* they would be had the cleanup never run
    uncleanedRes,  \* history: the response the last request would have got then
    probes         \* number of requests sent to botDetection

probeVars == <<uncleaned, uncleanedRes, probes>>

VARIABLES
    pruned         \* history: the dates whose bucket a sweep has deleted

tallyVars == <<pruned>>

VARIABLES
    performs,       \* number of Security.performAction calls made
    checked,        \* history: what checkAction returned to each call, with the honeypot
                    \* field as it was then
    document,       \* the captcha modals in document.body, in document order, by call
    inputs,         \* modal -> value of its #captchaInput, null when empty
    handlers,       \* modal -> the calls whose listeners are on its buttons, in the
                    \* order they were added
    currentAnswer,  \* SimpleCaptcha.currentAnswer
    invoked,        \* history: call -> number of times its callback has run
    lastClick,      \* history: [expected, typed, fired] of the last click on Verify
    viaCaptcha      \* history: the calls whose callback was run by a captcha modal

performVars ==
    <<performs, checked, document, inputs, handlers, currentAnswer, invoked, lastClick,
      viaCaptcha>>

vars ==
    <<now, limiterVars, pageVars, gatewayVars, analyticsVars, mirrorVars, auditVars,
      chainVars, authVars, probeVars, tallyVars, performVars>>

(***************************************************************************)
(* RateLimiter (src/js/security.js:22-98)                                  *)
(***************************************************************************)
\* this.requests.filter(time => now - time < RATE_LIMIT_WINDOW), with <= for <
CleanOldInclusive(reqs, t) ==
    SelectSeq(reqs, LAMBDA time : t - time <= RATE_LIMIT_WINDOW)

\* this.requests.filter(time => now - time < RATE_LIMIT_WINDOW)
CleanOld(reqs, t) ==
    SelectSeq(reqs, LAMBDA time : t - time < RATE_LIMIT_WINDOW)

\* now + BLOCK_DURATION, with the window length taken for the block length
BlockExpiryWindow(t) == t + RATE_LIMIT_WINDOW

\* this.blockedUntil = now + SecurityConfig.BLOCK_DURATION
BlockExpiry(t) == t + BLOCK_DURATION

\* source value 100 (the securityLog.length > 100 of logSecurityEvent), scaled
SECURITY_LOG_MAX == 2

\* Security.logSecurityEvent(type, details): push, then shift when over the
\* maximum; the copy in sessionStorage always equals the log and is not kept.
logSecurityEvent(log, type) ==
    LET pushed == Append(log, type)
    IN IF Len(pushed) > SECURITY_LOG_MAX THEN Tail(pushed) ELSE pushed

NoResult ==
    [op |-> "none", allowed |-> FALSE, reason |-> "none",
     retryAfter |-> null, remaining |-> null]

\* checkLimit() that records the request before it looks at the limit
checkLimitRecordFirst(self, t) ==
    LET s1 == IF self.blocked /\ t >= self.blockedUntil
              THEN [requests |-> <<>>, blocked |-> FALSE, blockedUntil |-> null]
              ELSE self
        pushed == Append(CleanOld(s1.requests, t), t)
    IN IF s1.blocked
       THEN [self |-> [s1 EXCEPT !.requests = pushed],
             ret  |-> [op |-> "checkLimit", allowed |-> FALSE, reason |-> "blocked",
                       retryAfter |-> Ceil(s1.blockedUntil - t, 1000),
                       remaining |-> null]]
       ELSE IF Len(pushed) > MAX_REQUESTS_PER_WINDOW
       THEN [self |-> [requests |-> pushed, blocked |-> TRUE,
                       blockedUntil |-> BlockExpiry(t)],
             ret  |-> [op |-> "checkLimit", allowed |-> FALSE,
                       reason |-> "rate_limited",
                       retryAfter |-> Ceil(BLOCK_DURATION, 1000),
                       remaining |-> null]]
       ELSE [self |-> [s1 EXCEPT !.requests = pushed],
             ret  |-> [op |-> "checkLimit", allowed |-> TRUE, reason |-> "none",
                       retryAfter |-> null,
                       remaining |-> MAX_REQUESTS_PER_WINDOW - Len(pushed)]]

\* checkLimit() at instant t on the limiter state self; gives the new state and
\* the returned object.
checkLimit(self, t) ==
    IF self.blocked /\ t < self.blockedUntil
    THEN [self |-> self,
          ret  |-> [op |-> "checkLimit", allowed |-> FALSE, reason |-> "blocked",
                    retryAfter |-> Ceil(self.blockedUntil - t, 1000),
                    remaining |-> null]]
    ELSE
      LET s1 == IF self.blocked
                THEN [requests |-> <<>>, blocked |-> FALSE, blockedUntil |-> null]
                ELSE self
          cleaned == CleanOld(s1.requests, t)
      IN IF Len(cleaned) >= MAX_REQUESTS_PER_WINDOW
         THEN [self |-> [requests |-> cleaned, blocked |-> TRUE,
                         blockedUntil |-> BlockExpiry(t)],
               ret  |-> [op |-> "checkLimit", allowed |-> FALSE,
                         reason |-> "rate_limited",
                         retryAfter |-> Ceil(BLOCK_DURATION, 1000),
                         remaining |-> null]]
         ELSE [self |-> [s1 EXCEPT !.requests = Append(cleaned, t)],
               ret  |-> [op |-> "checkLimit", allowed |-> TRUE, reason |-> "none",
                         retryAfter |-> null,
                         remaining |-> MAX_REQUESTS_PER_WINDOW - (Len(cleaned) + 1)]]

LimiterState ==
    [requests |-> requests, blocked |-> blocked, blockedUntil |-> blockedUntil]

LimiterInit ==
    /\ requests = <<>>
    /\ blocked = FALSE
    /\ blockedUntil = null
    /\ result = NoResult
    /\ securityLog = <<>>
    /\ calls = <<>>
    /\ violatedAt = null

CheckLimit ==
    /\ Len(calls) < MaxCalls
    /\ LET r == checkLimit(LimiterState, now)
       IN /\ requests' = r.self.requests
          /\ blocked' = r.self.blocked
          /\ blockedUntil' = r.self.blockedUntil
          /\ result' = r.ret
          /\ calls' = Append(calls, [t |-> now, allowed |-> r.ret.allowed])
          /\ violatedAt' = IF r.ret.reason = "rate_limited" THEN now ELSE violatedAt
          /\ securityLog' = IF r.ret.reason = "rate_limited"
                            THEN logSecurityEvent(securityLog, "rate_limit_exceeded")
                            ELSE securityLog
    /\ UNCHANGED now

GetStatus ==
    /\ requests' = CleanOld(requests, now)
    /\ result' = [op |-> "getStatus", allowed |-> FALSE, reason |-> "none",
                  retryAfter |-> null, remaining |-> Len(requests')]
    /\ UNCHANGED <<now, blocked, blockedUntil, securityLog, calls, violatedAt>>

Reset ==
    /\ requests' = <<>>
    /\ blocked' = FALSE
    /\ blockedUntil' = null
    /\ result' = NoResult
    /\ calls' = <<>>
    /\ violatedAt' = null
    /\ UNCHANGED <<now, securityLog>>

LimiterTick ==
    /\ \E t \in LimiterTimes : t > now /\ now' = t
    /\ UNCHANGED limiterVars

(***************************************************************************)
(* BotDetector, Honeypot and Security.checkAction (src/js/security.js)     *)
(***************************************************************************)
\* the 5 of "mouseMoves > 5"
MOUSE_MOVES == 5
\* the 5000 of the time-on-page setTimeout
DWELL_MS == 5000
\* Number of mousemove events followed.
MaxMoves == 6
\* Number of Security.checkAction calls followed.
MaxChecks == 4

\* The instants of the page: load, before and at the end of the dwell time.
PageTimes == {0, DWELL_MS - 1, DWELL_MS, DWELL_MS + 500}

CheckNames ==
    {"mouseMovement", "keyboardActivity", "scrollActivity", "touchActivity",
     "timeOnPage", "sessionValid"}

\* The action types asked of checkAction: the sensitive ones and two others.
sensitiveActions == {"bulk_process", "export_all", "delete_all"}
ActionTypes == sensitiveActions \cup {"merge", "download"}

\* The document has no honeypot field.
NoField == "<no field>"
\* What a bot writes into the field.
Filled == "http://spam.example"

\* updateScore() with every check weighted alike
updateScoreFlat(c) ==
    (IF c.mouseMovement THEN 20 ELSE 0)
    + (IF c.keyboardActivity THEN 20 ELSE 0)
    + (IF c.scrollActivity THEN 20 ELSE 0)
    + (IF c.touchActivity THEN 20 ELSE 0)
    + (IF c.timeOnPage THEN 20 ELSE 0)
    + (IF c.sessionValid THEN 20 ELSE 0)

\* updateScore(): the value it gives this.score
updateScore(c) ==
    LET s1 == IF c.mouseMovement THEN 20 ELSE 0
        s2 == IF c.keyboardActivity THEN s1 + 15 ELSE s1
        s3 == IF c.scrollActivity THEN s2 + 15 ELSE s2
        s4 == IF c.touchActivity THEN s3 + 20 ELSE s3
        s5 == IF c.timeOnPage THEN s4 + 20 ELSE s4
    IN IF c.sessionValid THEN s5 + 10 ELSE s5

\* BotDetector.isHuman()
isHuman(sc) == sc >= 35

\* BotDetector.getConfidence()
getConfidence(sc) ==
    IF sc >= 70 THEN "high"
    ELSE IF sc >= 40 THEN "medium"
    ELSE "low"

\* Honeypot.isTriggered(): field && field.value
isTriggered(field) == field # NoField /\ field # ""

NoVerdict ==
    [actionType |-> "none", allowed |-> FALSE, reason |-> "none",
     retryAfter |-> null, requiresCaptcha |-> FALSE,
     rateOk |-> FALSE, field |-> NoField, score |-> 0]

\* Security.checkAction that asks every action type for the humanness score
checkActionAlwaysScored(self, log, field, sc, actionType, t) ==
    LET r == checkLimit(self, t)
        log1 == IF r.ret.reason = "rate_limited"
                THEN logSecurityEvent(log, "rate_limit_exceeded") ELSE log
    IN IF ~r.ret.allowed
       THEN [self |-> r.self, log |-> log1,
             ret |-> [allowed |-> FALSE, reason |-> r.ret.reason,
                      retryAfter |-> r.ret.retryAfter, requiresCaptcha |-> FALSE]]
       ELSE IF isTriggered(field)
       THEN [self |-> r.self, log |-> logSecurityEvent(log1, "honeypot_triggered"),
             ret |-> [allowed |-> FALSE, reason |-> "bot_detected",
                      retryAfter |-> 300, requiresCaptcha |-> FALSE]]
       ELSE IF ~isHuman(sc)
       THEN [self |-> r.self, log |-> log1,
             ret |-> [allowed |-> FALSE, reason |-> "verification_required",
                      retryAfter |-> null, requiresCaptcha |-> TRUE]]
       ELSE [self |-> r.self, log |-> log1,
             ret |-> [allowed |-> TRUE, reason |-> "none",
                      retryAfter |-> null, requiresCaptcha |-> FALSE]]

\* Security.checkAction(actionType) at instant t: the limiter state and the
\* security log it leaves, and the object it returns (a field the source
\* object does not have is null / FALSE).
checkAction(self, log, field, sc, actionType, t) ==
    LET r == checkLimit(self, t)
        log1 == IF r.ret.reason = "rate_limited"
                THEN logSecurityEvent(log, "rate_limit_exceeded") ELSE log
    IN IF ~r.ret.allowed
       THEN [self |-> r.self, log |-> log1,
             ret |-> [allowed |-> FALSE, reason |-> r.ret.reason,
                      retryAfter |-> r.ret.retryAfter, requiresCaptcha |-> FALSE]]
       ELSE IF isTriggered(field)
       THEN [self |-> r.self, log |-> logSecurityEvent(log1, "honeypot_triggered"),
             ret |-> [allowed |-> FALSE, reason |-> "bot_detected",
                      retryAfter |-> 300, requiresCaptcha |-> FALSE]]
       ELSE IF actionType \in sensitiveActions /\ ~isHuman(sc)
       THEN [self |-> r.self, log |-> log1,
             ret |-> [allowed |-> FALSE, reason |-> "verification_required",
                      retryAfter |-> null, requiresCaptcha |-> TRUE]]
       ELSE [self |-> r.self, log |-> log1,
             ret |-> [allowed |-> TRUE, reason |-> "none",
                      retryAfter |-> null, requiresCaptcha |-> FALSE]]

PageInit ==
    /\ initialized = FALSE
    /\ checks = [c \in CheckNames |-> FALSE]
    /\ score = 0
    /\ mouseMoves = 0
    /\ dwellDue = null
    /\ sessionStored = FALSE
    /\ honeypot = NoField
    /\ verdict = NoVerdict

\* a handler of BotDetector.init sets one check and calls updateScore()
SetCheck(name) ==
    /\ checks' = [checks EXCEPT ![name] = TRUE]
    /\ score' = updateScore(checks')

\* Security.init(): BotDetector.init() and addHoneypotFields(); hasForm says
\* whether the document has a form to put the field in.
SecurityInit(hasForm) ==
    /\ ~initialized
    /\ initialized' = TRUE
    /\ dwellDue' = now + DWELL_MS
    /\ IF sessionStored THEN SetCheck("sessionValid") ELSE UNCHANGED <<checks, score>>
    /\ honeypot' = IF hasForm THEN "" ELSE NoField
    /\ UNCHANGED <<now, limiterVars, mouseMoves, sessionStored, verdict>>

\* the mousemove listener
MouseMove ==
    /\ initialized
    /\ mouseMoves < MaxMoves
    /\ mouseMoves' = mouseMoves + 1
    /\ IF mouseMoves' > MOUSE_MOVES
       THEN SetCheck("mouseMovement") ELSE UNCHANGED <<checks, score>>
    /\ UNCHANGED <<now, limiterVars, initialized, dwellDue, sessionStored, honeypot, verdict>>

\* the keydown, scroll and touchstart listeners, each registered with once: true
Once(name) ==
    /\ initialized
    /\ ~checks[name]
    /\ SetCheck(name)
    /\ UNCHANGED <<now, limiterVars, initialized, mouseMoves, dwellDue, sessionStored,
                   honeypot, verdict>>

KeyDown == Once("keyboardActivity")
Scroll == Once("scrollActivity")
TouchStart == Once("touchActivity")

\* the setTimeout callback of BotDetector.init
DwellTimer ==
    /\ dwellDue # null
    /\ dwellDue <= now
    /\ dwellDue' = null
    /\ SetCheck("timeOnPage")
    /\ UNCHANGED <<now, limiterVars, initialized, mouseMoves, sessionStored, honeypot, verdict>>

\* Analytics.startSession stores the session id (src/unnamed/part_000:662)
StoreSession ==
    /\ ~sessionStored
    /\ sessionStored' = TRUE
    /\ UNCHANGED <<now, limiterVars, initialized, checks, score, mouseMoves, dwellDue,
                   honeypot, verdict>>

\* a script fills the hidden field
FillHoneypot ==
    /\ honeypot = ""
    /\ honeypot' = Filled
    /\ UNCHANGED <<now, limiterVars, initialized, checks, score, mouseMoves, dwellDue,
                   sessionStored, verdict>>

\* Security.checkAction(actionType)
CheckAction(actionType) ==
    /\ Len(calls) < MaxChecks
    /\ LET r == checkAction(LimiterState, securityLog, honeypot, score, actionType, now)
           lim == checkLimit(LimiterState, now)
       IN /\ requests' = r.self.requests
          /\ blocked' = r.self.blocked
          /\ blockedUntil' = r.self.blockedUntil
          /\ securityLog' = r.log
          /\ verdict' = [actionType |-> actionType, allowed |-> r.ret.allowed,
                         reason |-> r.ret.reason, retryAfter |-> r.ret.retryAfter,
                         requiresCaptcha |-> r.ret.requiresCaptcha,
                         rateOk |-> lim.ret.allowed, field |-> honeypot, score |-> score]
          /\ calls' = Append(calls, [t |-> now, allowed |-> lim.ret.allowed])
          /\ violatedAt' = IF lim.ret.reason = "rate_limited" THEN now ELSE violatedAt
    /\ UNCHANGED <<now, result, initialized, checks, score, mouseMoves, dwellDue,
                   sessionStored, honeypot>>

\* Time passes on the page, up to the instant the dwell timer is due.
PageTick ==
    /\ \E t \in PageTimes \cup {dwellDue} :
          /\ t > now
          /\ dwellDue # null => t <= dwellDue
          /\ now' = t
    /\ dwellDue # null => dwellDue > now
    /\ UNCHANGED <<limiterVars, pageVars>>

(***************************************************************************)
(* Server: globalLimiter (src/backend/server.js:55-70), botDetection and   *)
(* the block registry (src/backend/middleware/botDetection.js), and the    *)
(* block / unblock routes (src/backend/routes/security.js:50-96).          *)
(***************************************************************************)
\* Every table of the server is keyed by ip and no operation reads another ip's
\* entry; one ip is followed.
IPs == {"203.0.113.5"}

\* windowMs: parseInt(process.env.RATE_LIMIT_WINDOW_MS) || 60000
WINDOW_MS == 60000
\* max: parseInt(process.env.RATE_LIMIT_MAX_REQUESTS) || 100 (30 in the
\* scenario of the specification), scaled
GLOBAL_MAX == 4
\* message.retryAfter of globalLimiter
LIMITER_RETRY_AFTER == 60
\* SUSPICIOUS_PATTERNS.rapidRequests, source value 20, scaled
rapidRequests == 2
\* the 10000 of "now - ipData.firstRequest < 10000" and of the counter reset
RAPID_WINDOW == 10000
\* BLOCK_DURATION of botDetection.js (the name is taken by SecurityConfig)
IP_BLOCK_DURATION == 300000
\* the 60000 of the cleanup's setInterval and of its idle test
CLEANUP_INTERVAL == 60000
\* the default of POST /api/security/block: duration || 300000
DEFAULT_BLOCK == 300000

\* A client stops sending once globalLimiter has refused it this many times in one window.
MaxExcess == 2
\* The last instant followed.
GatewayHorizon == 361000

\* The instants at which requests and admin calls arrive; between them time
\* stops only where a timer is due.
\* SpecRegistry: blocks, re-blocks and unblocks, and requests at a block call
\* and at its expiry.
AdminTimes == {0, 500}
RegistryTimes == {0, 1000}
\* SpecGateway: bursts around the rapid-request window, a spread-out series
\* within one limiter window, and a request 301 s after its last one.
GatewayTimes == {0, 9999, 10000, 10001, 40000, 341000}

\* The durations an admin may post; null is a request body without a duration.
PostedDurations == {null, 1000, 300000}

\* The tokens a caller may present, with what jwt.verify finds in each: the
\* signature made with the server's secret or not, and the expiry instant
\* (tokens are issued for 24 h; one was issued 24 h less 500 ms before 0).
FreshToken == "fresh.jwt"
StaleToken == "stale.jwt"
ForgedToken == "forged.jwt"
TokenTable ==
    [tok \in {FreshToken, StaleToken, ForgedToken} |->
        [signed |-> tok # ForgedToken,
         exp |-> IF tok = StaleToken THEN 500 ELSE 86400000]]

\* The Authorization headers sent: none, a scheme without a token, and each token.
AuthHeaders ==
    {<< >>, <<"Bearer">>, <<"Bearer", FreshToken>>, <<"Bearer", StaleToken>>,
     <<"Bearer", ForgedToken>>}

\* The ip fields posted to the block route: none, the client's address, the
\* loopback address, a host name, a truncated address and a prefixed text
\* that holds no address.
PostedIPs == IPs \cup {"", "::1", "localhost", "203.0.113", "::ffff:zzz"}

\* Number of expiry callbacks waiting at a time where the routes are followed.
MaxTimers == 2

\* The durations posted where the route's validation is followed.
ValidatedDurations == {null, 0, 1000}

NoPost ==
    [route |-> "none", auth |-> << >>, body |-> [ip |-> "", duration |-> null],
     status |-> 0, error |-> "", ran |-> FALSE, at |-> 0,
     before |-> [blockedIPs |-> {}, timers |-> {}]]

\* User agents of the requests, with what the patterns of analyzeBotSignature
\* give on each: GOOD_BOTS, BOT_USER_AGENTS, userAgent.length, browser signature.
Browser == "Mozilla/5.0 (Windows NT 10.0; Win64; x64) Chrome/120.0 Safari/537.36"
Curl == "curl/8.4.0"
UserAgents == {Browser, Curl}

\* More user agents: none sent, a search engine's crawler, a short crawler
\* signature, a short and a long client that no list names, a headless
\* browser, and a script that names a crawler.
NoUserAgent == ""
Googlebot == "Mozilla/5.0 (compatible; Googlebot/2.1; +http://www.google.com/bot.html)"
Slurp == "Yahoo! Slurp"
OkHttp == "okhttp/4.9.3"
Dalvik == "Dalvik/2.1.0 (Linux; U; Android 11; Pixel 5)"
Headless == "Mozilla/5.0 (X11; Linux x86_64) HeadlessChrome/120.0 Safari/537.36"
CurlAsGooglebot == "curl/8.4.0 (like Googlebot)"
AllUserAgents ==
    {Browser, Curl, NoUserAgent, Googlebot, Slurp, OkHttp, Dalvik, Headless, CurlAsGooglebot}

\* The patterns are literal and case-insensitive: the text each one looks for.
BOT_USER_AGENTS ==
    {"bot", "spider", "crawl", "scrape", "curl", "wget", "python-requests", "java/",
     "perl", "ruby", "phantomjs", "headless", "selenium", "puppeteer"}
GOOD_BOTS ==
    {"googlebot", "bingbot", "slurp", "duckduckbot", "baiduspider", "yandexbot",
     "facebookexternalhit", "twitterbot", "linkedinbot"}
BROWSER_SIGNATURES == {"mozilla", "chrome", "safari", "firefox", "edge", "opera"}
suspiciousHeaders == {"x-forwarded-host", "x-original-url", "x-rewrite-url"}

UpperCase == "ABCDEFGHIJKLMNOPQRSTUVWXYZ"
LowerCase == "abcdefghijklmnopqrstuvwxyz"

\* one character under the i flag
ToLowerChar(c) ==
    IF \E i \in 1..Len(UpperCase) : SubSeq(UpperCase, i, i) = c
    THEN LET i == CHOOSE j \in 1..Len(UpperCase) : SubSeq(UpperCase, j, j) = c
         IN SubSeq(LowerCase, i, i)
    ELSE c

RECURSIVE ToLower(_)
ToLower(str) ==
    IF Len(str) = 0 THEN ""
    ELSE ToLowerChar(SubSeq(str, 1, 1)) \o ToLower(SubSeq(str, 2, Len(str)))

\* /text/i.test(str)
Test(text, str) ==
    LET low == ToLower(str)
    IN \E i \in 1..(Len(low) - Len(text) + 1) : SubSeq(low, i, i + Len(text) - 1) = text

\* What the three pattern lists give on each user agent.
PatternTable ==
    [ua \in AllUserAgents |->
        [good |-> \E text \in GOOD_BOTS : Test(text, ua),
         bad |-> \E text \in BOT_USER_AGENTS : Test(text, ua),
         browser |-> \E text \in BROWSER_SIGNATURES : Test(text, ua)]]

\* GOOD_BOTS.some(pattern => pattern.test(userAgent))
MatchesGoodBot(ua) == PatternTable[ua].good

\* BOT_USER_AGENTS.some(pattern => pattern.test(userAgent))
MatchesBadBot(ua) == PatternTable[ua].bad

\* /mozilla|chrome|safari|firefox|edge|opera/i.test(userAgent)
hasBrowserSignature(ua) == PatternTable[ua].browser

\* req.path.startsWith('/api/')
IsApiPath(path) == Len(path) >= 5 /\ SubSeq(path, 1, 5) = "/api/"

NoRequest == [ip |-> "", ua |-> "", referer |-> "", path |-> "", headers |-> {}]
NoBotInfo == [isBot |-> FALSE, botType |-> "none", suspiciousScore |-> null]

\* analyzeBotSignature with BOT_USER_AGENTS looked at before GOOD_BOTS
analyzeBotSignatureBadFirst(req) ==
    IF MatchesBadBot(req.ua)
    THEN [isBot |-> TRUE, botType |-> "bad", suspiciousScore |-> 5]
    ELSE IF MatchesGoodBot(req.ua)
    THEN [isBot |-> TRUE, botType |-> "good", suspiciousScore |-> 0]
    ELSE [isBot |-> FALSE, botType |-> "unknown", suspiciousScore |-> 0]

\* analyzeBotSignature without the check for a very short user agent
analyzeBotSignatureNoShort(req) ==
    LET bad == MatchesBadBot(req.ua)
    IN IF MatchesGoodBot(req.ua)
       THEN [isBot |-> TRUE, botType |-> "good", suspiciousScore |-> 0]
       ELSE [isBot |-> bad, botType |-> IF bad THEN "bad" ELSE "unknown",
             suspiciousScore |->
                 (IF req.ua = "" THEN 3 ELSE 0) + (IF bad THEN 5 ELSE 0)
                 + (IF req.referer = "" /\ ~IsApiPath(req.path) THEN 1 ELSE 0)
                 + 2 * Cardinality(req.headers \cap suspiciousHeaders)
                 + (IF ~hasBrowserSignature(req.ua) /\ req.ua # "" THEN 2 ELSE 0)]

\* analyzeBotSignature(req): [isBot, botType, suspiciousScore]. req.ua and
\* req.referer are the header values with '' for a header that is not sent;
\* req.headers are the names of the headers sent with a non-empty value.
analyzeBotSignature(req) ==
    LET userAgent == req.ua
        referer == req.referer
        s1 == IF userAgent = "" THEN 3 ELSE 0
    IN IF MatchesGoodBot(userAgent)
       THEN [isBot |-> TRUE, botType |-> "good", suspiciousScore |-> 0]
       ELSE LET bad == MatchesBadBot(userAgent)
                s2 == IF bad THEN s1 + 5 ELSE s1
                s3 == IF referer = "" /\ ~IsApiPath(req.path) THEN s2 + 1 ELSE s2
                s4 == s3 + 2 * Cardinality(req.headers \cap suspiciousHeaders)
                s5 == IF Len(userAgent) < 20 THEN s4 + 2 ELSE s4
                s6 == IF ~hasBrowserSignature(userAgent) /\ userAgent # "" THEN s5 + 2 ELSE s5
            IN [isBot |-> bad, botType |-> IF bad THEN "bad" ELSE "unknown",
                suspiciousScore |-> s6]

\* The middleware chain answers 200 here when every stage called next().
NoResponse == [ip |-> "", status |-> 0, by |-> "none", retryAfter |-> null]

Respond(ip, status, by, retryAfter) ==
    [ip |-> ip, status |-> status, by |-> by, retryAfter |-> retryAfter]

NoPre ==
    [t |-> 0, over |-> FALSE, blocked |-> FALSE, count |-> 0, first |-> 0,
     bad |-> FALSE, afterBlock |-> FALSE, expired |-> FALSE]

NoBlock == [at |-> null, dur |-> null, re |-> FALSE]

\* globalLimiter with a refused key kept out for five windows
globalLimiterEscalating(h, ip, t) ==
    LET e == IF h[ip].count = 0 \/ t >= h[ip].resetTime
             THEN [count |-> 1, resetTime |-> t + WINDOW_MS]
             ELSE [h[ip] EXCEPT !.count = @ + 1]
        pass == e.count <= GLOBAL_MAX
    IN [hits |-> [h EXCEPT ![ip] =
                     IF pass THEN e ELSE [e EXCEPT !.resetTime = t + 6 * WINDOW_MS]],
        pass |-> pass]

\* express-rate-limit with its memory store: one fixed window per key, opened
\* by the first hit and closed windowMs later; a hit is refused when the
\* window's count exceeds max.
globalLimiter(h, ip, t) ==
    LET e == IF h[ip].count = 0 \/ t >= h[ip].resetTime
             THEN [count |-> 1, resetTime |-> t + WINDOW_MS]
             ELSE [h[ip] EXCEPT !.count = @ + 1]
    IN [hits |-> [h EXCEPT ![ip] = e], pass |-> e.count <= GLOBAL_MAX]

\* blockIP(ip), with the timer left out
blockIPNoTimer(st, ip, t) ==
    [st EXCEPT !.blockedIPs = @ \cup {ip}]

\* blockIP(ip): blockedIPs.add(ip); setTimeout(delete, BLOCK_DURATION)
blockIP(st, ip, t) ==
    [st EXCEPT !.blockedIPs = @ \cup {ip},
               !.timers = @ \cup {[ip |-> ip, due |-> t + IP_BLOCK_DURATION]}]

\* manualBlockIP(ip, duration), with BLOCK_DURATION taken for the duration
manualBlockIPFixed(st, ip, duration, t) ==
    [st EXCEPT !.blockedIPs = @ \cup {ip},
               !.timers = @ \cup {[ip |-> ip, due |-> t + IP_BLOCK_DURATION]}]

\* manualBlockIP(ip, duration)
manualBlockIP(st, ip, duration, t) ==
    [st EXCEPT !.blockedIPs = @ \cup {ip},
               !.timers = @ \cup {[ip |-> ip, due |-> t + duration]}]

\* unblockIP(ip)
unblockIP(st, ip) == [st EXCEPT !.blockedIPs = @ \ {ip}]

\* the rapid-request test, off by one
IsRapidOffByOne(ipData, t) ==
    t - ipData.firstRequest < RAPID_WINDOW /\ ipData.count > rapidRequests + 1

\* now - ipData.firstRequest < 10000 && ipData.count > rapidRequests
IsRapid(ipData, t) ==
    t - ipData.firstRequest < RAPID_WINDOW /\ ipData.count > rapidRequests

\* botDetection(req, res, next) at instant t on st = [blockedIPs, timers,
\* ipRequestCounts]; gives the new state and the response (status 200 for next()).
botDetection(st, req, t) ==
    LET ip == req.ip
    IN IF ip \in st.blockedIPs
       THEN [st |-> st, botInfo |-> NoBotInfo,
             res |-> Respond(ip, 403, "blocklist", 300)]
       ELSE
         LET old == IF ip \in DOMAIN st.ipRequestCounts
                    THEN st.ipRequestCounts[ip]
                    ELSE [count |-> 0, firstRequest |-> t, lastRequest |-> t]
             ipData == [old EXCEPT !.count = @ + 1, !.lastRequest = t]
             put(d) == [i \in DOMAIN st.ipRequestCounts \cup {ip} |->
                          IF i = ip THEN d ELSE st.ipRequestCounts[i]]
         IN IF IsRapid(ipData, t)
            THEN [st |-> blockIP([st EXCEPT !.ipRequestCounts = put(ipData)], ip, t),
                  botInfo |-> NoBotInfo,
                  res |-> Respond(ip, 429, "rapid", 60)]
            ELSE
              LET after == IF t - ipData.firstRequest > RAPID_WINDOW
                           THEN [ipData EXCEPT !.count = 1, !.firstRequest = t]
                           ELSE ipData
                  st2 == [st EXCEPT !.ipRequestCounts = put(after)]
                  info == analyzeBotSignature(req)
              IN IF info.isBot /\ info.botType = "bad"
                 THEN [st |-> st2, botInfo |-> info,
                       res |-> Respond(ip, 403, "badbot", null)]
                 ELSE [st |-> st2, botInfo |-> info,
                       res |-> Respond(ip, 200, "none", null)]

\* The chain with botDetection put before globalLimiter
BotDetectionFirst(h, st, req, t) ==
    LET b == botDetection(st, req, t)
    IN IF b.res.status # 200
       THEN [hits |-> h, st |-> b.st, botInfo |-> b.botInfo, res |-> b.res]
       ELSE LET lim == globalLimiter(h, req.ip, t)
            IN [hits |-> lim.hits, st |-> b.st, botInfo |-> b.botInfo,
                res |-> IF lim.pass THEN b.res
                        ELSE Respond(req.ip, 429, "limiter", LIMITER_RETRY_AFTER)]

\* The middleware chain of server.js: app.use(globalLimiter), then
\* app.use(botDetection); a stage that answers ends the chain.
Middleware(h, st, req, t) ==
    LET lim == globalLimiter(h, req.ip, t)
    IN IF ~lim.pass
       THEN [hits |-> lim.hits, st |-> st, botInfo |-> NoBotInfo,
             res |-> Respond(req.ip, 429, "limiter", LIMITER_RETRY_AFTER)]
       ELSE LET b == botDetection(st, req, t)
            IN [hits |-> lim.hits, st |-> b.st, botInfo |-> b.botInfo, res |-> b.res]

RegistryState ==
    [blockedIPs |-> blockedIPs, timers |-> timers, ipRequestCounts |-> ipRequestCounts]

GatewayInit ==
    /\ hits = [i \in IPs |-> [count |-> 0, resetTime |-> 0]]
    /\ blockedIPs = {}
    /\ timers = {}
    /\ ipRequestCounts = << >>
    /\ cleanupDue = CLEANUP_INTERVAL
    /\ response = NoResponse
    /\ request = NoRequest
    /\ botInfo = NoBotInfo
    /\ posted = NoPost
    /\ lastOp = [op |-> "none", ip |-> ""]
    /\ pre = NoPre
    /\ lastBlock = [i \in IPs |-> NoBlock]
    /\ recent = [i \in IPs |-> <<>>]
    /\ prevReq = [i \in IPs |-> [t |-> null, by |-> "none"]]
    /\ lastReqAt = [i \in IPs |-> null]

\* The count globalLimiter holds for ip at instant t.
LimiterCount(ip, t) == IF t >= hits[ip].resetTime THEN 0 ELSE hits[ip].count

\* The last n elements of s.
LastN(s, n) == IF Len(s) <= n THEN s ELSE SubSeq(s, Len(s) - n + 1, Len(s))

\* The last block call for ip ran its course: its duration has passed and no
\* expiry callback for ip that is due is still waiting to run.
BlockElapsed(ip) ==
    /\ lastBlock[ip].at # null
    /\ now >= lastBlock[ip].at + lastBlock[ip].dur
    /\ \A tm \in timers : tm.ip = ip => tm.due > now

\* One request of ip with user agent ua through the middleware chain.
\* A request arrives and passes through the middleware chain.
Serve(req) ==
    /\ LimiterCount(req.ip, now) < GLOBAL_MAX + MaxExcess
    /\ LET r == Middleware(hits, RegistryState, req, now)
           ip == req.ip
           ua == req.ua
           had == ip \in DOMAIN ipRequestCounts
       IN /\ hits' = r.hits
          /\ request' = req
          /\ botInfo' = r.botInfo
          /\ blockedIPs' = r.st.blockedIPs
          /\ timers' = r.st.timers
          /\ ipRequestCounts' = r.st.ipRequestCounts
          /\ response' = r.res
          /\ pre' = [t |-> now,
                     over |-> LimiterCount(ip, now) >= GLOBAL_MAX,
                     blocked |-> ip \in blockedIPs,
                     count |-> IF had THEN ipRequestCounts[ip].count ELSE 0,
                     first |-> IF had THEN ipRequestCounts[ip].firstRequest ELSE now,
                     bad |-> MatchesBadBot(ua) /\ ~MatchesGoodBot(ua),
                     afterBlock |-> lastOp = [op |-> "block", ip |-> ip],
                     expired |-> BlockElapsed(ip)]
          /\ lastBlock' = IF r.res.by = "rapid"
                          THEN [lastBlock EXCEPT ![ip] =
                                   [at |-> now, dur |-> IP_BLOCK_DURATION, re |-> FALSE]]
                          ELSE lastBlock
          /\ recent' = IF r.res.by \in {"limiter", "blocklist"} THEN recent
                       ELSE [recent EXCEPT ![ip] =
                                LastN(Append(@, now), rapidRequests + 1)]
          /\ prevReq' = [prevReq EXCEPT ![ip] =
                            IF response.ip = ip
                            THEN [t |-> lastReqAt[ip], by |-> response.by] ELSE @]
          /\ lastReqAt' = [lastReqAt EXCEPT ![ip] = now]
    /\ lastOp' = [op |-> "request", ip |-> req.ip]
    /\ UNCHANGED <<now, cleanupDue, posted>>

\* A request of an API path with the user agent ua and no other header the
\* chain looks at.
Request(ip, ua) ==
    Serve([ip |-> ip, ua |-> ua, referer |-> "", path |-> "/api/health", headers |-> {}])

\* jwt.verify(token, secret, callback): the error the callback gets, "" for none
jwtVerify(token, t) ==
    IF ~TokenTable[token].signed THEN "JsonWebTokenError"
    ELSE IF t >= TokenTable[token].exp THEN "TokenExpiredError"
    ELSE ""

\* verifyToken that tells an expired token from an invalid one
verifyTokenTelling(authHeader, t) ==
    LET token == IF Len(authHeader) >= 2 THEN authHeader[2] ELSE ""
    IN IF token = ""
       THEN [next |-> FALSE, status |-> 401, error |-> "Access token required"]
       ELSE IF jwtVerify(token, t) = "TokenExpiredError"
       THEN [next |-> FALSE, status |-> 401, error |-> "Token expired"]
       ELSE IF jwtVerify(token, t) # ""
       THEN [next |-> FALSE, status |-> 403, error |-> "Invalid or expired token"]
       ELSE [next |-> TRUE, status |-> 200, error |-> ""]

\* verifyToken(req, res, next); authHeader is the Authorization header split
\* at its spaces, << >> for a request without the header.
verifyToken(authHeader, t) ==
    LET token == IF Len(authHeader) >= 2 THEN authHeader[2] ELSE ""
    IN IF token = ""
       THEN [next |-> FALSE, status |-> 401, error |-> "Access token required"]
       ELSE IF jwtVerify(token, t) # ""
       THEN [next |-> FALSE, status |-> 403, error |-> "Invalid or expired token"]
       ELSE [next |-> TRUE, status |-> 200, error |-> ""]

RECURSIVE SplitDots(_)
\* str.split('.')
SplitDots(str) ==
    IF \E i \in 1..Len(str) : SubSeq(str, i, i) = "."
    THEN LET i == CHOOSE j \in 1..Len(str) :
                     /\ SubSeq(str, j, j) = "."
                     /\ \A k \in 1..(j - 1) : SubSeq(str, k, k) # "."
         IN <<SubSeq(str, 1, i - 1)>> \o SplitDots(SubSeq(str, i + 1, Len(str)))
    ELSE <<str>>

\* /^\d{1,3}$/.test(part)
IsOctetText(part) ==
    /\ Len(part) \in 1..3
    /\ \A i \in 1..Len(part) :
          SubSeq(part, i, i) \in {"0", "1", "2", "3", "4", "5", "6", "7", "8", "9"}

\* /^(\d{1,3}\.){3}\d{1,3}$/.test(ip)
ipRegexTest(ip) ==
    LET parts == SplitDots(ip)
    IN Len(parts) = 4 /\ \A k \in 1..4 : IsOctetText(parts[k])

\* ip.startsWith(prefix)
startsWith(str, prefix) ==
    Len(str) >= Len(prefix) /\ SubSeq(str, 1, Len(prefix)) = prefix

\* ipRegex.test(ip) || ip === '::1' || ip.startsWith('::ffff:')
ipFormatOk(ip) == ipRegexTest(ip) \/ ip = "::1" \/ startsWith(ip, "::ffff:")

\* What the format test gives on each ip that is posted.
IpTable == [ip \in PostedIPs |-> ipFormatOk(ip)]

\* the handler of POST /api/security/block on the body [ip, duration]; ip is
\* "" and duration is null where the body has no such field.
postBlock(st, body, t) ==
    IF body.ip = ""
    THEN [st |-> st, status |-> 400, error |-> "IP address required"]
    ELSE IF ~IpTable[body.ip]
    THEN [st |-> st, status |-> 400, error |-> "Invalid IP address format"]
    ELSE LET blockDuration ==
                 IF body.duration = null \/ body.duration = 0
                 THEN DEFAULT_BLOCK ELSE body.duration
         IN [st |-> manualBlockIP(st, body.ip, blockDuration, t),
             status |-> 200, error |-> ""]

\* the handler of POST /api/security/unblock on the body [ip]
postUnblock(st, body) ==
    IF body.ip = ""
    THEN [st |-> st, status |-> 400, error |-> "IP address required"]
    ELSE [st |-> unblockIP(st, body.ip), status |-> 200, error |-> ""]

\* A call of a protected route of the registry: verifyToken, then the handler r.
Protected(route, authHeader, body, r) ==
    LET v == verifyToken(authHeader, now)
        st == IF v.next THEN r.st ELSE RegistryState
        status == IF v.next THEN r.status ELSE v.status
        done == v.next /\ r.status = 200
        ok == done /\ body.ip \in IPs
    IN /\ blockedIPs' = st.blockedIPs
       /\ timers' = st.timers
       /\ posted' = [route |-> route, auth |-> authHeader, body |-> body,
                     status |-> status,
                     error |-> IF v.next THEN r.error ELSE v.error,
                     ran |-> v.next, at |-> now,
                     before |-> [blockedIPs |-> blockedIPs, timers |-> timers]]
       /\ lastBlock' =
             IF ~ok THEN lastBlock
             ELSE IF route = "unblock" THEN [lastBlock EXCEPT ![body.ip] = NoBlock]
             ELSE [lastBlock EXCEPT ![body.ip] =
                      [at |-> now,
                       dur |-> IF body.duration = null \/ body.duration = 0
                               THEN DEFAULT_BLOCK ELSE body.duration,
                       re |-> body.ip \in blockedIPs]]
       /\ lastOp' = [op |-> IF done THEN route ELSE "refused", ip |-> body.ip]
       /\ UNCHANGED <<now, request, botInfo, hits, ipRequestCounts, cleanupDue, response,
                      pre, recent, prevReq, lastReqAt>>

\* POST /api/security/block
AdminBlock(authHeader, body) ==
    Protected("block", authHeader, body, postBlock(RegistryState, body, now))

\* POST /api/security/unblock
AdminUnblock(authHeader, body) ==
    Protected("unblock", authHeader, body, postUnblock(RegistryState, body))

\* POST /api/security/block {ip, duration} by the logged-in admin
PostBlock(ip, duration) ==
    AdminBlock(<<"Bearer", FreshToken>>, [ip |-> ip, duration |-> duration])

\* POST /api/security/unblock {ip} by the logged-in admin
PostUnblock(ip) ==
    AdminUnblock(<<"Bearer", FreshToken>>, [ip |-> ip, duration |-> null])

\* A setTimeout callback of blockIP / manualBlockIP runs: blockedIPs.delete(ip)
FireTimer(tm) ==
    /\ tm \in timers
    /\ tm.due <= now
    /\ timers' = timers \ {tm}
    /\ blockedIPs' = blockedIPs \ {tm.ip}
    /\ lastOp' = [op |-> "timer", ip |-> tm.ip]
    /\ UNCHANGED <<now, request, botInfo, posted, hits, ipRequestCounts, cleanupDue, response, pre, lastBlock,
                   recent, prevReq, lastReqAt>>

\* the setInterval callback, deleting the entries idle for more than a second
CleanupIdleSecond ==
    /\ cleanupDue <= now
    /\ ipRequestCounts' =
          [i \in {j \in DOMAIN ipRequestCounts :
                     ~(now - ipRequestCounts[j].lastRequest > 1000)} |->
              ipRequestCounts[i]]
    /\ cleanupDue' = cleanupDue + CLEANUP_INTERVAL
    /\ lastOp' = [op |-> "cleanup", ip |-> ""]
    /\ UNCHANGED <<now, request, botInfo, posted, hits, blockedIPs, timers, response, pre, lastBlock, recent,
                   prevReq, lastReqAt>>

\* The setInterval callback: entries idle for more than 60000 ms are deleted
Cleanup ==
    /\ cleanupDue <= now
    /\ ipRequestCounts' =
          [i \in {j \in DOMAIN ipRequestCounts :
                     ~(now - ipRequestCounts[j].lastRequest > CLEANUP_INTERVAL)} |->
              ipRequestCounts[i]]
    /\ cleanupDue' = cleanupDue + CLEANUP_INTERVAL
    /\ lastOp' = [op |-> "cleanup", ip |-> ""]
    /\ UNCHANGED <<now, request, botInfo, posted, hits, blockedIPs, timers, response, pre, lastBlock, recent,
                   prevReq, lastReqAt>>

\* Time passes, up to the next instant at which a callback is due.
GatewayTick(arrivals) ==
    /\ \E t \in arrivals \cup {tm.due : tm \in timers} \cup {cleanupDue} :
          /\ t > now
          /\ t <= GatewayHorizon
          /\ t <= cleanupDue
          /\ \A tm \in timers : t <= tm.due
          /\ now' = t
    /\ cleanupDue > now
    /\ \A tm \in timers : tm.due > now
    /\ UNCHANGED gatewayVars

(***************************************************************************)
(* Analytics routes (src/unnamed/part_001)                                 *)
(***************************************************************************)
\* maxDays of cleanupOldData, source value 30, scaled
maxDays == 1
\* the 7 days of the snapshot's last7Days (part_001:165), scaled
ROLLUP_DAYS == 2
\* the 10 of topTools' slice(0, 10) (part_001:180), scaled
TOP_TOOLS == 1
\* The last calendar date followed; dates start at 0.
MaxDate == 2
\* Number of POST /track requests followed.
MaxEvents == 3

\* What the file holds when it holds no document.
Missing == [state |-> "missing"]
Corrupt == [state |-> "corrupt"]
NoDoc == [state |-> "none"]

Tools == {"merge", "split"}
Visitors == {"v1", "v2"}

\* The bodies of POST /track that are sent, with the visitor id of the request.
TrackInputs ==
    {[event |-> "pageview", page |-> "/", tool |-> "", size |-> 0, visitor |-> "v1"],
     [event |-> "file_processed", page |-> "", tool |-> "", size |-> 1024, visitor |-> "v1"],
     [event |-> "error", page |-> "", tool |-> "", size |-> 0, visitor |-> "v1"]}
    \cup {[event |-> "tool_use", page |-> "", tool |-> t, size |-> 0, visitor |-> "v1"] :
             t \in Tools}
    \cup {[event |-> "session_start", page |-> "", tool |-> "", size |-> 0, visitor |-> v] :
             v \in Visitors}

\* The bodies sent while the admin exports, imports and clears.
StoreInputs ==
    {ev \in TrackInputs : ev.event = "session_start" \/ ev.tool = "merge"}

\* A JavaScript object used as a map: key -> value, with `k in DOMAIN m` for presence.
EmptyMap == << >>
Put(m, k, v) == [x \in DOMAIN m \cup {k} |-> IF x = k THEN v ELSE m[x]]
Get(m, k, default) == IF k \in DOMAIN m THEN m[k] ELSE default
Without(m, k) == [x \in DOMAIN m \ {k} |-> m[x]]

\* uniqueVisitors as it can be held: a Set in memory, an array in JSON, the
\* plain object {} that JSON.stringify makes of a Set.
AsSet(ids) == [kind |-> "Set", ids |-> ids]
AsArray(ids) == [kind |-> "array", ids |-> ids]
AsObject == [kind |-> "object", ids |-> {}]

\* initialData of initAnalyticsFile, as saveAnalytics writes it
InitialDocument ==
    [created |-> 0, dailyStats |-> EmptyMap, toolUsage |-> <<>>,
     pageViews |-> EmptyMap, sessions |-> <<>>,
     totalPageViews |-> 0, totalToolUses |-> 0, uniqueVisitors |-> AsSet({})]

\* saveAnalytics(data): what is written to the file
saveAnalytics(data) ==
    IF data.uniqueVisitors.kind = "Set"
    THEN [data EXCEPT !.uniqueVisitors = AsArray(@.ids)]
    ELSE data

\* initAnalyticsFile(): writes the initial document if the file does not exist
initAnalyticsFile(f) == IF f = Missing THEN saveAnalytics(InitialDocument) ELSE f

\* JSON.parse(fs.readFileSync(ANALYTICS_FILE)): throws on a missing or corrupt file
Readable(f) == f # Missing /\ f # Corrupt

\* getAnalytics(): [ok, data, file]; ok = FALSE when the exception leaves the function
getAnalytics(f) ==
    IF Readable(f)
    THEN [ok |-> TRUE, file |-> f,
          data |-> IF f.uniqueVisitors.kind = "array"
                   THEN [f EXCEPT !.uniqueVisitors = AsSet(@.ids)]
                   ELSE f]
    ELSE LET g == initAnalyticsFile(f)
         IN IF Readable(g)
            THEN [ok |-> TRUE, file |-> g, data |-> g]
            ELSE [ok |-> FALSE, file |-> g, data |-> NoDoc]

\* the bucket ensureTodayStats creates
EmptyBucket ==
    [pageViews |-> 0, toolUses |-> 0, uniqueVisitors |-> 0, filesProcessed |-> 0,
     bytesProcessed |-> 0, errors |-> 0, pages |-> EmptyMap, tools |-> EmptyMap]

\* ensureTodayStats(data)
ensureTodayStats(data, day) ==
    IF day \in DOMAIN data.dailyStats THEN data
    ELSE [data EXCEPT !.dailyStats = Put(@, day, EmptyBucket)]

\* toolUsage keeps the insertion order of its keys: a sequence of [tool, count]
HasTool(usage, tool) == \E i \in 1..Len(usage) : usage[i].tool = tool

\* Names every object literal and every object made by JSON.parse inherits
\* from Object.prototype: obj[name] is a function where obj has no such key.
InheritedKeys == {"constructor", "toString", "valueOf", "hasOwnProperty"}

\* if (!obj[key]) obj[key] = 0; obj[key]++ on a stored count v: a count that is
\* null (JSON's rendering of NaN) is falsy and starts again at 0
Incremented(v) == IF v = null THEN 1 ELSE v + 1

\* the same two statements where obj has no key: an inherited function is
\* truthy, ++ makes NaN of it, JSON.stringify writes null
FirstCount(key) == IF key \in InheritedKeys THEN null ELSE 1

Increment(m, k) ==
    Put(m, k, IF k \in DOMAIN m THEN Incremented(m[k]) ELSE FirstCount(k))

BumpTool(usage, tool) ==
    IF HasTool(usage, tool)
    THEN [i \in 1..Len(usage) |->
             IF usage[i].tool = tool THEN [usage[i] EXCEPT !.count = Incremented(@)]
             ELSE usage[i]]
    ELSE Append(usage, [tool |-> tool, count |-> FirstCount(tool)])

ToolCount(usage, tool) ==
    IF HasTool(usage, tool)
    THEN usage[CHOOSE i \in 1..Len(usage) : usage[i].tool = tool].count
    ELSE 0

\* case 'pageview'
trackPageview(data, day, ev) ==
    LET b == data.dailyStats[day]
    IN [data EXCEPT
          !.dailyStats = Put(@, day,
              [b EXCEPT !.pageViews = @ + 1,
                        !.pages = Increment(@, ev.page)]),
          !.totalPageViews = @ + 1]

\* case 'tool_use' that counts in the day's bucket only
trackToolUseDailyOnly(data, day, ev) ==
    LET b == data.dailyStats[day]
    IN [data EXCEPT
          !.dailyStats = Put(@, day,
              [b EXCEPT !.toolUses = @ + 1,
                        !.tools = Put(@, ev.tool, Get(b.tools, ev.tool, 0) + 1)])]

\* case 'tool_use'
trackToolUse(data, day, ev) ==
    LET b == data.dailyStats[day]
    IN [data EXCEPT
          !.dailyStats = Put(@, day,
              [b EXCEPT !.toolUses = @ + 1,
                        !.tools = Increment(@, ev.tool)]),
          !.totalToolUses = @ + 1,
          !.toolUsage = BumpTool(@, ev.tool)]

\* case 'file_processed'
trackFileProcessed(data, day, ev) ==
    LET b == data.dailyStats[day]
    IN [data EXCEPT
          !.dailyStats = Put(@, day,
              [b EXCEPT !.filesProcessed = @ + 1, !.bytesProcessed = @ + ev.size])]

\* case 'error'
trackError(data, day, ev) ==
    LET b == data.dailyStats[day]
    IN [data EXCEPT !.dailyStats = Put(@, day, [b EXCEPT !.errors = @ + 1])]

\* case 'session_start' that counts the visitor in the day's bucket every time
trackSessionStartEveryTime(data, day, ev) ==
    LET b == data.dailyStats[day]
    IN [data EXCEPT
          !.uniqueVisitors = AsSet(@.ids \cup {ev.visitor}),
          !.dailyStats = Put(@, day, [b EXCEPT !.uniqueVisitors = @ + 1])]

\* case 'session_start'
trackSessionStart(data, day, ev) ==
    LET d1 == IF data.uniqueVisitors.kind = "absent"
              THEN [data EXCEPT !.uniqueVisitors = AsSet({})]
              ELSE data
        b == d1.dailyStats[day]
    IN IF d1.uniqueVisitors.kind = "Set"
       THEN LET wasNew == ev.visitor \notin d1.uniqueVisitors.ids
            IN [d1 EXCEPT
                  !.uniqueVisitors = AsSet(@.ids \cup {ev.visitor}),
                  !.dailyStats =
                      IF wasNew
                      THEN Put(@, day, [b EXCEPT !.uniqueVisitors = @ + 1])
                      ELSE @]
       ELSE d1

\* the switch of POST /track on the in-memory document, after ensureTodayStats
applyEvent(data, day, ev) ==
    CASE ev.event = "pageview" -> trackPageview(data, day, ev)
      [] ev.event = "tool_use" -> trackToolUse(data, day, ev)
      [] ev.event = "file_processed" -> trackFileProcessed(data, day, ev)
      [] ev.event = "error" -> trackError(data, day, ev)
      [] ev.event = "session_start" -> trackSessionStart(data, day, ev)
      [] OTHER -> data

\* POST /track whose write does not reach the file
trackLost(f, day, key, ev) ==
    LET r == getAnalytics(f)
    IN [ok |-> r.ok, file |-> r.file]

\* POST /track on the file f: [ok, file]. day is the date ensureTodayStats
\* reads, key the date the handler reads after it; a switch case that finds no
\* bucket under key throws before saveAnalytics.
track(f, day, key, ev) ==
    LET r == getAnalytics(f)
    IN IF ~r.ok THEN [ok |-> FALSE, file |-> r.file]
       ELSE LET data == ensureTodayStats(r.data, day)
            IN IF key \notin DOMAIN data.dailyStats
               THEN [ok |-> FALSE, file |-> r.file]
               ELSE [ok |-> TRUE, file |-> saveAnalytics(applyEvent(data, key, ev))]

\* a sweep that deletes from the back of the sorted dates
RECURSIVE dropNewest(_)
dropNewest(stats) ==
    IF Cardinality(DOMAIN stats) > maxDays
    THEN dropNewest(Without(stats, CHOOSE d \in DOMAIN stats :
                                      \A e \in DOMAIN stats : d >= e))
    ELSE stats

\* Object.keys(dailyStats).sort(): the dates in ascending order; the sweep
\* deletes from the front while more than maxDays remain.
RECURSIVE dropOldest(_)
dropOldest(stats) ==
    IF Cardinality(DOMAIN stats) > maxDays
    THEN dropOldest(Without(stats, CHOOSE d \in DOMAIN stats :
                                      \A e \in DOMAIN stats : d <= e))
    ELSE stats

\* cleanupOldData() on the file f: [ok, file]
cleanupOldData(f) ==
    LET r == getAnalytics(f)
    IN IF ~r.ok THEN [ok |-> FALSE, file |-> r.file]
       ELSE [ok |-> TRUE,
             file |-> saveAnalytics([r.data EXCEPT !.dailyStats = dropOldest(@)])]

\* res.json(analytics): JSON.stringify turns a Set into {}
toJSON(data) ==
    IF data.uniqueVisitors.kind = "Set"
    THEN [data EXCEPT !.uniqueVisitors = AsObject]
    ELSE data

\* a sort by count descending that puts equal counts in reverse order
RECURSIVE sortByCountUnstable(_)
sortByCountUnstable(usage) ==
    IF Len(usage) <= 1 THEN usage
    ELSE LET sorted == sortByCountUnstable(SubSeq(usage, 1, Len(usage) - 1))
             x == usage[Len(usage)]
             k == Cardinality({i \in 1..Len(sorted) : sorted[i].count > x.count})
         IN SubSeq(sorted, 1, k) \o <<x>> \o SubSeq(sorted, k + 1, Len(sorted))

\* Array.prototype.sort((a, b) => b[1] - a[1]): stable, by count descending
RECURSIVE sortByCount(_)
sortByCount(usage) ==
    IF Len(usage) <= 1 THEN usage
    ELSE LET sorted == sortByCount(SubSeq(usage, 1, Len(usage) - 1))
             x == usage[Len(usage)]
             k == Cardinality({i \in 1..Len(sorted) : sorted[i].count >= x.count})
         IN SubSeq(sorted, 1, k) \o <<x>> \o SubSeq(sorted, k + 1, Len(sorted))

RECURSIVE sumOver(_, _, _)
sumOver(stats, days, field) ==
    IF days = {} THEN 0
    ELSE LET d == CHOOSE x \in days : TRUE
         IN (IF d \in DOMAIN stats THEN stats[d][field] ELSE 0)
            + sumOver(stats, days \ {d}, field)

\* the analytics object of GET /api/analytics, without requestStats (which is
\* taken from the request logger, not from the store)
snapshot(data, day) ==
    LET week == (day - (ROLLUP_DAYS - 1))..day
        top == sortByCount(data.toolUsage)
    IN [today |-> IF day \in DOMAIN data.dailyStats THEN data.dailyStats[day]
                  ELSE [pageViews |-> 0, toolUses |-> 0],
        total |-> [pageViews |-> data.totalPageViews,
                   toolUses |-> data.totalToolUses,
                   uniqueVisitors |->
                       IF data.uniqueVisitors.kind \in {"array", "Set"}
                       THEN Cardinality(data.uniqueVisitors.ids)
                       ELSE 0],
        last7Days |-> [pageViews |-> sumOver(data.dailyStats, week, "pageViews"),
                       toolUses |-> sumOver(data.dailyStats, week, "toolUses"),
                       files |-> sumOver(data.dailyStats, week, "filesProcessed")],
        topTools |-> SubSeq(top, 1, IF Len(top) < TOP_TOOLS THEN Len(top) ELSE TOP_TOOLS),
        dailyStats |-> data.dailyStats]

\* The visitor ids a stored document remembers as already seen.
SeenVisitors(f) == IF getAnalytics(f).ok THEN getAnalytics(f).data.uniqueVisitors.ids ELSE {}

Days == 0..MaxDate

NoOutcome == [op |-> "none", status |-> 0, wasCorrupt |-> FALSE]

NoExport == [snap |-> NoDoc, ids |-> {}, fresh |-> FALSE]

AnalyticsInit ==
    /\ file = initAnalyticsFile(Missing)
    /\ today = 0
    /\ inflight = [e \in TrackInputs |-> 0]
    /\ outcome = NoOutcome
    /\ held = NoDoc
    /\ received = 0
    /\ handled = [e \in TrackInputs, d \in Days |-> 0]
    /\ atExport = NoExport

RECURSIVE total(_, _)
total(bag, keys) ==
    IF keys = {} THEN 0
    ELSE LET e == CHOOSE x \in keys : TRUE IN bag[e] + total(bag, keys \ {e})

\* A POST /track request arrives; its body is read before the handler runs.
Arrive(ev) ==
    /\ received < MaxEvents
    /\ received' = received + 1
    /\ inflight' = [inflight EXCEPT ![ev] = @ + 1]
    /\ UNCHANGED <<file, today, outcome, held, handled, atExport>>

\* The handler of POST /track runs, from getAnalytics to saveAnalytics, in one
\* turn of the event loop: every call in it is synchronous.
Track(ev) ==
    /\ inflight[ev] > 0
    /\ inflight' = [inflight EXCEPT ![ev] = @ - 1]
    /\ LET r == track(file, today, today, ev)
       IN /\ file' = r.file
          /\ outcome' = [op |-> "track", status |-> IF r.ok THEN 200 ELSE 500,
                         wasCorrupt |-> file = Corrupt]
          /\ handled' = IF r.ok THEN [handled EXCEPT ![ev, today] = @ + 1] ELSE handled
    /\ atExport' = [atExport EXCEPT !.fresh = FALSE]
    /\ UNCHANGED <<received, today, held>>

\* The same handler when midnight passes between the getTodayKey() of
\* ensureTodayStats and the getTodayKey() of the handler.
TrackAtMidnight(ev) ==
    /\ inflight[ev] > 0
    /\ today < MaxDate
    /\ inflight' = [inflight EXCEPT ![ev] = @ - 1]
    /\ today' = today + 1
    /\ LET r == track(file, today, today + 1, ev)
       IN /\ file' = r.file
          /\ outcome' = [op |-> "track", status |-> IF r.ok THEN 200 ELSE 500,
                         wasCorrupt |-> file = Corrupt]
          /\ handled' = IF r.ok THEN [handled EXCEPT ![ev, today + 1] = @ + 1]
                         ELSE handled
    /\ atExport' = [atExport EXCEPT !.fresh = FALSE]
    /\ UNCHANGED <<received, held>>

\* GET /api/analytics
GetSnapshot ==
    /\ LET r == getAnalytics(file)
       IN /\ file' = r.file
          /\ outcome' = [op |-> "snapshot", status |-> IF r.ok THEN 200 ELSE 500,
                         wasCorrupt |-> file = Corrupt]
    /\ UNCHANGED <<received, today, inflight, held, handled, atExport>>

\* The daily setInterval callback cleanupOldData
Sweep ==
    /\ LET r == cleanupOldData(file)
       IN /\ file' = r.file
          /\ outcome' = [op |-> "sweep", status |-> IF r.ok THEN 200 ELSE 500,
                         wasCorrupt |-> file = Corrupt]
    /\ atExport' = [atExport EXCEPT !.fresh = FALSE]
    /\ UNCHANGED <<received, today, inflight, held, handled>>

\* Number of POST /track requests followed where the counters are summed.
MaxTally == 4

\* The bodies sent then: a page, a tool of the site, a tool named like a
\* property every object inherits, two visitors.
TallyInputs ==
    {[event |-> "pageview", page |-> "/", tool |-> "", size |-> 0, visitor |-> "v1"],
     [event |-> "tool_use", page |-> "", tool |-> "merge", size |-> 0, visitor |-> "v1"],
     [event |-> "tool_use", page |-> "", tool |-> "constructor", size |-> 0,
      visitor |-> "v1"],
     [event |-> "session_start", page |-> "", tool |-> "", size |-> 0, visitor |-> "v1"],
     [event |-> "session_start", page |-> "", tool |-> "", size |-> 0, visitor |-> "v2"]}

TallyInit == pruned = {}

\* POST /track, from the request to the response: the handler is synchronous.
TallyPost(ev) ==
    /\ received < MaxTally
    /\ received' = received + 1
    /\ LET r == track(file, today, today, ev)
       IN /\ file' = r.file
          /\ outcome' = [op |-> "track", status |-> IF r.ok THEN 200 ELSE 500,
                         wasCorrupt |-> file = Corrupt]
    /\ atExport' = [atExport EXCEPT !.fresh = FALSE]
    /\ UNCHANGED <<today, inflight, held, handled, pruned>>

\* The daily sweep, with the dates whose bucket it deletes.
TallySweep ==
    /\ Sweep
    /\ pruned' = pruned \cup (DOMAIN file.dailyStats \ DOMAIN file'.dailyStats)

\* Midnight passes.
DayTick ==
    /\ today < MaxDate
    /\ today' = today + 1
    /\ atExport' = [atExport EXCEPT !.fresh = FALSE]
    /\ UNCHANGED <<received, file, inflight, outcome, held, handled>>

\* GET /api/analytics/export
Export ==
    /\ LET r == getAnalytics(file)
       IN /\ file' = r.file
          /\ outcome' = [op |-> "export", status |-> IF r.ok THEN 200 ELSE 500,
                         wasCorrupt |-> file = Corrupt]
          /\ held' = IF r.ok THEN toJSON(r.data) ELSE held
          /\ atExport' = IF r.ok
                         THEN [snap |-> snapshot(r.data, today),
                               ids |-> r.data.uniqueVisitors.ids, fresh |-> TRUE]
                         ELSE [atExport EXCEPT !.fresh = FALSE]
    /\ UNCHANGED <<received, today, inflight, handled>>

\* POST /api/analytics/import {data: held}
Import ==
    /\ held # NoDoc
    /\ file' = saveAnalytics(held)
    /\ outcome' = [op |-> "import", status |-> 200, wasCorrupt |-> file = Corrupt]
    /\ UNCHANGED <<received, today, inflight, held, handled, atExport>>

\* DELETE /api/analytics
ClearAll ==
    /\ file' = saveAnalytics([InitialDocument EXCEPT !.uniqueVisitors = AsArray({})])
    /\ outcome' = [op |-> "clear", status |-> 200, wasCorrupt |-> file = Corrupt]
    /\ atExport' = [atExport EXCEPT !.fresh = FALSE]
    /\ UNCHANGED <<received, today, inflight, held, handled>>

\* The file is damaged from outside the program (a torn write, an edit by hand).
Damage ==
    /\ file # Corrupt
    /\ file' = Corrupt
    /\ outcome' = NoOutcome
    /\ atExport' = [atExport EXCEPT !.fresh = FALSE]
    /\ UNCHANGED <<received, today, inflight, held, handled>>

\* The file is removed from outside the program.
Remove ==
    /\ file # Missing
    /\ file' = Missing
    /\ outcome' = NoOutcome
    /\ atExport' = [atExport EXCEPT !.fresh = FALSE]
    /\ UNCHANGED <<received, today, inflight, held, handled>>

(***************************************************************************)
(* Browser-side Analytics object (src/unnamed/part_000)                    *)
(***************************************************************************)
\* Number of calls on the Analytics object followed.
MaxMirrorCalls == 3

\* the structure ensureStorage writes when the storage holds none
Analytics_initial ==
    [created |-> 0, dailyStats |-> EmptyMap, toolUsage |-> <<>>, sessions |-> <<>>,
     totalPageViews |-> 0, totalToolUses |-> 0, uniqueVisits |-> 0]

\* MAX_DAYS is the same number of days as the server's maxDays
MAX_DAYS == maxDays

\* cleanOldData() on the stored data
Analytics_cleanOldData(data) == [data EXCEPT !.dailyStats = dropOldest(@)]

\* ensureStorage() on the stored data (NoDoc: getData() returns null)
Analytics_ensureStorage(data) ==
    Analytics_cleanOldData(IF data = NoDoc THEN Analytics_initial ELSE data)

\* the bucket trackPageView creates
Analytics_pageBucket ==
    [pageViews |-> 0, toolUses |-> 0, uniqueVisitors |-> 0, pages |-> EmptyMap,
     tools |-> EmptyMap, errors |-> 0, avgSessionDuration |-> 0, bounceRate |-> 0]

\* the bucket trackToolUsage creates
Analytics_toolBucket ==
    [pageViews |-> 0, toolUses |-> 0, uniqueVisitors |-> 0, pages |-> EmptyMap,
     tools |-> EmptyMap, errors |-> 0]

\* trackPageView()
Analytics_trackPageView(data, day, page) ==
    LET b == Get(data.dailyStats, day, Analytics_pageBucket)
    IN [data EXCEPT
          !.dailyStats = Put(@, day,
              [b EXCEPT !.pageViews = @ + 1,
                        !.pages = Put(@, page, Get(b.pages, page, 0) + 1)]),
          !.totalPageViews = @ + 1]

\* trackToolUsage(toolId)
Analytics_trackToolUsage(data, day, toolId) ==
    LET b == Get(data.dailyStats, day, Analytics_toolBucket)
    IN [data EXCEPT
          !.dailyStats = Put(@, day,
              [b EXCEPT !.toolUses = @ + 1,
                        !.tools = Put(@, toolId, Get(b.tools, toolId, 0) + 1)]),
          !.totalToolUses = @ + 1,
          !.toolUsage = BumpTool(@, toolId)]

\* trackFileProcessed(toolId, fileSize, success): [ok, data]; reading a field
\* of a bucket that does not exist throws before setData
Analytics_trackFileProcessed(data, day, fileSize, success) ==
    IF day \notin DOMAIN data.dailyStats THEN [ok |-> FALSE, data |-> data]
    ELSE LET b == data.dailyStats[day]
             b1 == IF Get(b, "filesProcessed", 0) = 0
                   THEN Put(Put(b, "filesProcessed", 0), "bytesProcessed", 0)
                   ELSE b
             b2 == [b1 EXCEPT !.filesProcessed = @ + 1, !.bytesProcessed = @ + fileSize]
             b3 == IF success THEN b2 ELSE [b2 EXCEPT !.errors = @ + 1]
         IN [ok |-> TRUE, data |-> [data EXCEPT !.dailyStats = Put(@, day, b3)]]

\* trackError(errorType, message): [ok, data]
Analytics_trackError(data, day, errorType) ==
    IF day \notin DOMAIN data.dailyStats THEN [ok |-> FALSE, data |-> data]
    ELSE LET b == data.dailyStats[day]
             types == Get(b, "errorTypes", EmptyMap)
             b1 == Put(b, "errorTypes", Put(types, errorType, Get(types, errorType, 0) + 1))
         IN [ok |-> TRUE,
             data |-> [data EXCEPT !.dailyStats = Put(@, day, [b1 EXCEPT !.errors = @ + 1])]]

\* startSession(), the stored data and the visitor id
Analytics_startSession(store, day) ==
    IF store.visitor THEN store
    ELSE [visitor |-> TRUE,
          analytics |->
              [store.analytics EXCEPT
                  !.uniqueVisits = @ + 1,
                  !.dailyStats =
                      IF day \in DOMAIN @
                      THEN Put(@, day, [@[day] EXCEPT !.uniqueVisitors = @ + 1])
                      ELSE @]]

\* init(): ensureStorage(), trackPageView(), startSession()
Analytics_init(store, day, page) ==
    Analytics_startSession(
        [store EXCEPT !.analytics =
            Analytics_trackPageView(Analytics_ensureStorage(@), day, page)], day)

NoMirrorOutcome == [op |-> "none", ok |-> TRUE]

MirrorInit ==
    /\ local = [analytics |-> NoDoc, visitor |-> FALSE]
    /\ mirrorCalls = 0
    /\ mirrorOutcome = NoMirrorOutcome

\* The page is loaded: Analytics.init()
PageLoad ==
    /\ mirrorCalls < MaxMirrorCalls
    /\ mirrorCalls' = mirrorCalls + 1
    /\ local' = Analytics_init(local, today, "/")
    /\ mirrorOutcome' = [op |-> "init", ok |-> TRUE]

\* Analytics.trackToolUsage(toolId) on a loaded page
MirrorToolUsage(toolId) ==
    /\ mirrorCalls < MaxMirrorCalls
    /\ local.analytics # NoDoc
    /\ mirrorCalls' = mirrorCalls + 1
    /\ local' = [local EXCEPT !.analytics = Analytics_trackToolUsage(@, today, toolId)]
    /\ mirrorOutcome' = [op |-> "trackToolUsage", ok |-> TRUE]

\* Analytics.trackFileProcessed(toolId, fileSize, success) on a loaded page
MirrorFileProcessed(fileSize, success) ==
    /\ mirrorCalls < MaxMirrorCalls
    /\ local.analytics # NoDoc
    /\ mirrorCalls' = mirrorCalls + 1
    /\ LET r == Analytics_trackFileProcessed(local.analytics, today, fileSize, success)
       IN /\ local' = [local EXCEPT !.analytics = r.data]
          /\ mirrorOutcome' = [op |-> "trackFileProcessed", ok |-> r.ok]

\* Analytics.trackError(errorType, message) on a loaded page
MirrorError(errorType) ==
    /\ mirrorCalls < MaxMirrorCalls
    /\ local.analytics # NoDoc
    /\ mirrorCalls' = mirrorCalls + 1
    /\ LET r == Analytics_trackError(local.analytics, today, errorType)
       IN /\ local' = [local EXCEPT !.analytics = r.data]
          /\ mirrorOutcome' = [op |-> "trackError", ok |-> r.ok]

\* Analytics.cleanOldData() on a loaded page
MirrorClean ==
    /\ local.analytics # NoDoc
    /\ local' = [local EXCEPT !.analytics = Analytics_cleanOldData(@)]
    /\ mirrorOutcome' = [op |-> "cleanOldData", ok |-> TRUE]
    /\ UNCHANGED mirrorCalls

(***************************************************************************)
(* Request logger (src/unnamed/part_002) and its queries                   *)
(* (src/backend/routes/security.js)                                        *)
(***************************************************************************)
\* MAX_LOGS, source value 10000, scaled
MAX_LOGS == 4
\* the 20 of getRecentLogs(20) in GET /status, scaled
STATUS_WINDOW == 3
\* the 5 of suspiciousCount > 5, scaled
WARNING_THRESHOLD == 1
\* the 100 of parseInt(req.query.limit) || 100, scaled
DEFAULT_LIMIT == 1
\* the 500 of Math.min(limit, 500), scaled
LOGS_CAP == 2
\* Number of requests followed through the logger.
MaxLogged == 5
\* Number of requests in progress at one time.
MaxOpen == 2

StatusCodes == {200, 403, 429}

\* Number.parseInt results: NaN, or an integer
NaN == [nan |-> TRUE, value |-> 0]
Num(n) == [nan |-> FALSE, value |-> n]

Digits == "0123456789"
IsDigit(c) == \E i \in 1..10 : SubSeq(Digits, i, i) = c
DigitValue(c) == (CHOOSE i \in 1..10 : SubSeq(Digits, i, i) = c) - 1

\* the string without its leading white space
RECURSIVE TrimStart(_)
TrimStart(str) ==
    IF Len(str) > 0 /\ SubSeq(str, 1, 1) = " " THEN TrimStart(SubSeq(str, 2, Len(str)))
    ELSE str

\* the value of the longest prefix of digits of str, after the value acc
RECURSIVE DigitsPrefix(_, _)
DigitsPrefix(str, acc) ==
    IF Len(str) > 0 /\ IsDigit(SubSeq(str, 1, 1))
    THEN DigitsPrefix(SubSeq(str, 2, Len(str)), 10 * acc + DigitValue(SubSeq(str, 1, 1)))
    ELSE acc

\* parseInt(str) for decimal text: white space, a sign, digits, anything.
\* A query parameter that is not sent is undefined, which parseInt reads as
\* the text "undefined".
parseInt(str) ==
    LET t == TrimStart(str)
        signed == Len(t) > 0 /\ SubSeq(t, 1, 1) \in {"-", "+"}
        negative == Len(t) > 0 /\ SubSeq(t, 1, 1) = "-"
        body == IF signed THEN SubSeq(t, 2, Len(t)) ELSE t
    IN IF Len(body) = 0 \/ ~IsDigit(SubSeq(body, 1, 1)) THEN NaN
       ELSE Num(IF negative THEN 0 - DigitsPrefix(body, 0) ELSE DigitsPrefix(body, 0))

\* The values of ?limit= that are sent.
QueryLimits == {"undefined", "0", "-1", "abc", "1", "9", " 2.9"}

\* The limits getRecentLogs is called with.
RecentLimits == {0, 1, STATUS_WINDOW, MAX_LOGS + 1}

RECURSIVE Reverse(_)
Reverse(seq) == IF seq = <<>> THEN <<>> ELSE Append(Reverse(Tail(seq)), Head(seq))

\* Array.prototype.slice(begin) for any integer begin
slice(arr, begin) ==
    LET from == IF begin < 0
                THEN (IF Len(arr) + begin < 0 THEN 0 ELSE Len(arr) + begin)
                ELSE (IF begin > Len(arr) THEN Len(arr) ELSE begin)
    IN SubSeq(arr, from + 1, Len(arr))

\* the query without its reverse()
getRecentLogsOldestFirst(logs, limit) == slice(logs, 0 - limit)

\* getRecentLogs(limit): requestLogs.slice(-limit).reverse(), on a copy
getRecentLogs(logs, limit) == Reverse(slice(logs, 0 - limit))

\* the finish handler that evicts the entry it has just stored
recordEvictNewest(logs, logEntry) ==
    IF Len(logs) + 1 > MAX_LOGS THEN logs ELSE Append(logs, logEntry)

\* requestLogs.push(logEntry); if (requestLogs.length > MAX_LOGS) requestLogs.shift()
record(logs, logEntry) ==
    LET pushed == Append(logs, logEntry)
    IN IF Len(pushed) > MAX_LOGS THEN Tail(pushed) ELSE pushed

\* GET /api/security/logs?limit=<text>
getLogs(logs, text) ==
    LET parsed == parseInt(text)
        limit == IF parsed.nan \/ parsed.value = 0 THEN DEFAULT_LIMIT ELSE parsed.value
    IN getRecentLogs(logs, IF limit < LOGS_CAP THEN limit ELSE LOGS_CAP)

\* GET /status with a warning from suspiciousCount >= 5
securityStatusAtLeast(logs) ==
    LET recentLogs == getRecentLogs(logs, STATUS_WINDOW)
        suspiciousCount ==
            Cardinality({i \in 1..Len(recentLogs) : recentLogs[i].statusCode \in {403, 429}})
    IN [status |-> IF suspiciousCount >= WARNING_THRESHOLD THEN "warning" ELSE "secure",
        suspiciousRequests |-> suspiciousCount]

\* GET /api/security/status: the fields taken from the recent logs
securityStatus(logs) ==
    LET recentLogs == getRecentLogs(logs, STATUS_WINDOW)
        suspiciousCount ==
            Cardinality({i \in 1..Len(recentLogs) : recentLogs[i].statusCode \in {403, 429}})
    IN [status |-> IF suspiciousCount > WARNING_THRESHOLD THEN "warning" ELSE "secure",
        suspiciousRequests |-> suspiciousCount]

\* the callback of fs.appendFile that starts the write again after an error
appendCallbackRetry(pending, lines, errors, logEntry, err) ==
    IF err
    THEN [appends |-> pending, logFile |-> lines, writeErrors |-> errors \cup {logEntry.id}]
    ELSE [appends |-> pending \ {logEntry}, logFile |-> Append(lines, logEntry),
          writeErrors |-> errors]

\* fs.appendFile(LOG_FILE, logLine, (err) => { if (err) console.error(...) })
\* when the write ends
appendCallback(pending, lines, errors, logEntry, err) ==
    IF err
    THEN [appends |-> pending \ {logEntry}, logFile |-> lines,
          writeErrors |-> errors \cup {logEntry.id}]
    ELSE [appends |-> pending \ {logEntry}, logFile |-> Append(lines, logEntry),
          writeErrors |-> errors]

NoReply ==
    [op |-> "none", arg |-> "", logs |-> <<>>, status |-> "", count |-> 0, of |-> <<>>]

AuditInit ==
    /\ requestLogs = <<>>
    /\ open = {}
    /\ started = 0
    /\ appends = {}
    /\ logFile = <<>>
    /\ writeErrors = {}
    /\ reply = NoReply
    /\ entries = << >>
    /\ warnings = {}
    /\ finished = <<>>

\* pattern.test(str) for a pattern of plain text without the i flag
Includes(text, str) ==
    \E i \in 1..(Len(str) - Len(text) + 1) : SubSeq(str, i, i + Len(text) - 1) = text

\* /first.*second/i.test(str), for a str of one line
TestThen(first, second, str) ==
    LET low == ToLower(str)
    IN \E i \in 1..(Len(low) - Len(first) + 1) :
          /\ SubSeq(low, i, i + Len(first) - 1) = first
          /\ Test(second, SubSeq(low, i + Len(first), Len(low)))

\* /text$/i.test(str): without the m flag, $ is the end of str
TestAtEnd(text, str) ==
    LET low == ToLower(str)
    IN Len(low) >= Len(text) /\ SubSeq(low, Len(low) - Len(text) + 1, Len(low)) = text

\* isSuspicious(log): suspiciousPatterns.some(pattern => pattern.test(testString)),
\* log.query being given as JSON.stringify writes it
isSuspicious(log) ==
    LET testString == log.path \o log.query \o log.userAgent
    IN \/ Includes("../", testString)
       \/ Test("<script", testString)
       \/ TestThen("union", "select", testString)
       \/ Test("eval(", testString)
       \/ TestAtEnd(".php", testString)
       \/ TestAtEnd(".exe", testString)
       \/ TestThen("admin", "password", testString)
       \/ Test("wp-admin", testString)
       \/ Test("phpmyadmin", testString)

\* A request of a browser without a query string.
PlainRequest(ip, path) == [ip |-> ip, path |-> path, query |-> "{}", userAgent |-> Browser]

\* The requests whose entries are tested for suspicious patterns: each text the
\* pattern library is said to hold, in the path or in the query.
SuspectRequests ==
    {PlainRequest("203.0.113.5", p) :
        p \in {"/", "/../etc/passwd", "/index.php", "/setup.exe", "/wp-admin/",
               "/phpMyAdmin/"}}
    \cup {[PlainRequest("203.0.113.5", "/search") EXCEPT !.query = q] :
             q \in {"{\"q\":\"<SCRIPT>\"}", "{\"u\":\"javascript:alert(1)\"}",
                    "{\"id\":\"1 union all select 1\"}", "{\"id\":\"1 or 1=1\"}",
                    "{\"x\":\"eval(1)\"}", "{\"admin\":\"1\",\"password\":\"x\"}"}}
    \cup {[PlainRequest("203.0.113.5", p) EXCEPT !.userAgent = ua] :
             p \in {"/", "/index.php"}, ua \in {"", "scanner/index.php"}}

\* const logEntry = { timestamp: new Date().toISOString(), path: req.path, ip: ...,
\* userAgent: req.headers['user-agent'] || 'unknown' }
NewLogEntry(req, t) ==
    [timestamp |-> t, ip |-> req.ip, path |-> req.path, query |-> req.query,
     userAgent |-> IF req.userAgent = "" THEN "unknown" ELSE req.userAgent,
     responseTime |-> null]

\* What isSuspicious gives on the entry of each of these requests, and of the
\* plain requests of the other series.
SuspicionTable ==
    [log \in {[path |-> e.path, query |-> e.query, userAgent |-> e.userAgent] :
                 e \in {NewLogEntry(req, 0) :
                           req \in SuspectRequests
                                   \cup {PlainRequest("203.0.113.5", p) :
                                            p \in {"/api/health", "/api/analytics"}}}} |->
        isSuspicious(log)]

\* if (isSuspicious(logEntry)) in the finish handler
Flagged(logEntry) ==
    LET log == [path |-> logEntry.path, query |-> logEntry.query,
                userAgent |-> logEntry.userAgent]
    IN IF log \in DOMAIN SuspicionTable THEN SuspicionTable[log] ELSE isSuspicious(log)

\* requestLogger(req, res, next): the entry is made and the finish handler set
LogRequestWith(req) ==
    /\ started < MaxLogged
    /\ Cardinality(open) < MaxOpen
    /\ started' = started + 1
    /\ open' = open \cup {started + 1}
    /\ entries' = Put(entries, started + 1, NewLogEntry(req, now))
    /\ UNCHANGED <<requestLogs, appends, logFile, writeErrors, reply, warnings, finished>>

LogRequestOf(ip, path) == LogRequestWith(PlainRequest(ip, path))

LogRequest == LogRequestOf("198.51.100.7", "/api/health")

\* res.on('finish'): the response with statusCode has been handed over
Finish(id, statusCode) ==
    /\ id \in open
    /\ open' = open \ {id}
    /\ LET logEntry == [id |-> id, statusCode |-> statusCode]
       IN /\ requestLogs' = record(requestLogs, logEntry)
          /\ appends' = appends \cup {logEntry}
          /\ finished' = Append(finished, logEntry)
    /\ entries' = [entries EXCEPT ![id].responseTime = now - entries[id].timestamp]
    /\ warnings' = IF Flagged(entries[id]) THEN warnings \cup {id} ELSE warnings
    /\ UNCHANGED <<started, logFile, writeErrors, reply>>

\* The append of logEntry ends, with or without an error.
AppendDone(logEntry, err) ==
    /\ logEntry \in appends
    /\ LET r == appendCallback(appends, logFile, writeErrors, logEntry, err)
       IN /\ appends' = r.appends
          /\ logFile' = r.logFile
          /\ writeErrors' = r.writeErrors
    /\ UNCHANGED <<requestLogs, open, started, reply, entries, warnings, finished>>

\* getRecentLogs(limit) is called
GetRecentLogs(limit) ==
    /\ reply' = [NoReply EXCEPT !.op = "getRecentLogs", !.count = limit, !.of = requestLogs,
                                !.logs = getRecentLogs(requestLogs, limit)]
    /\ UNCHANGED <<requestLogs, open, started, appends, logFile, writeErrors, entries,
                   warnings, finished>>

\* GET /api/security/logs?limit=text
GetLogs(text) ==
    /\ reply' = [NoReply EXCEPT !.op = "logs", !.arg = text, !.of = requestLogs,
                                !.logs = getLogs(requestLogs, text)]
    /\ UNCHANGED <<requestLogs, open, started, appends, logFile, writeErrors, entries,
                   warnings, finished>>

\* GET /api/security/status
GetStatus200 ==
    /\ LET r == securityStatus(requestLogs)
       IN reply' = [NoReply EXCEPT !.op = "status", !.status = r.status, !.of = requestLogs,
                                   !.count = r.suspiciousRequests]
    /\ UNCHANGED <<requestLogs, open, started, appends, logFile, writeErrors, entries,
                   warnings, finished>>

\* the 10 of .slice(0, 10) in getRequestStats, scaled
TOP_PATHS == 2

\* The requests whose statistics are taken, with the status they are
\* answered with: two addresses, three paths, two status codes.
StatsRequests ==
    {[ip |-> "203.0.113.5", path |-> "/", status |-> 200],
     [ip |-> "203.0.113.5", path |-> "/api/health", status |-> 200],
     [ip |-> "198.51.100.7", path |-> "/api/analytics", status |-> 429]}

\* requestLogs as getRequestStats reads it: each entry with its fields
LoggedEntries ==
    [i \in 1..Len(requestLogs) |->
        [timestamp |-> entries[requestLogs[i].id].timestamp,
         ip |-> entries[requestLogs[i].id].ip,
         path |-> entries[requestLogs[i].id].path,
         statusCode |-> requestLogs[i].statusCode,
         responseTime |-> entries[requestLogs[i].id].responseTime]]

\* requestLogs.filter(log => new Date(log.timestamp).getTime() > since)
RECURSIVE filterSince(_, _)
filterSince(logs, since) ==
    IF logs = <<>> THEN <<>>
    ELSE IF Head(logs).timestamp > since
         THEN <<Head(logs)>> \o filterSince(Tail(logs), since)
         ELSE filterSince(Tail(logs), since)

\* todayLogs.forEach(log => pathCounts[log.path] = (pathCounts[log.path] || 0) + 1):
\* the object's entries, in the order the paths were first met
RECURSIVE countPaths(_, _)
countPaths(logs, acc) ==
    IF logs = <<>> THEN acc
    ELSE LET p == Head(logs).path
             at == {k \in 1..Len(acc) : acc[k].path = p}
         IN countPaths(Tail(logs),
                IF at = {} THEN Append(acc, [path |-> p, count |-> 1])
                ELSE [k \in 1..Len(acc) |->
                         IF k \in at THEN [acc[k] EXCEPT !.count = @ + 1] ELSE acc[k]])

\* todayLogs.forEach(log => statusCounts[log.statusCode] = (... || 0) + 1)
RECURSIVE countStatus(_, _)
countStatus(logs, acc) ==
    IF logs = <<>> THEN acc
    ELSE countStatus(Tail(logs),
             Put(acc, Head(logs).statusCode, Get(acc, Head(logs).statusCode, 0) + 1))

\* todayLogs.reduce((sum, log) => sum + (log.responseTime || 0), 0)
RECURSIVE sumResponseTime(_)
sumResponseTime(logs) ==
    IF logs = <<>> THEN 0 ELSE Head(logs).responseTime + sumResponseTime(Tail(logs))

\* Math.round(a / b) for a >= 0, b > 0
Round(a, b) == (2 * a + b) \div (2 * b)

\* getRequestStats with topPaths not cut to its first entries
getRequestStatsAllPaths(logs, t) ==
    LET recentLogs == filterSince(logs, t - 3600000)
        todayLogs == filterSince(logs, t - 86400000)
    IN [totalRequests |-> Len(logs),
        lastHour |-> Len(recentLogs),
        lastDay |-> Len(todayLogs),
        uniqueVisitors |-> Cardinality({todayLogs[i].ip : i \in 1..Len(todayLogs)}),
        topPaths |-> sortByCount(countPaths(todayLogs, <<>>)),
        statusCodes |-> countStatus(todayLogs, EmptyMap),
        avgResponseTime |-> IF Len(todayLogs) > 0
                            THEN Round(sumResponseTime(todayLogs), Len(todayLogs))
                            ELSE 0]

\* getRequestStats() at Date.now() = t
getRequestStats(logs, t) ==
    LET recentLogs == filterSince(logs, t - 3600000)
        todayLogs == filterSince(logs, t - 86400000)
        sorted == sortByCount(countPaths(todayLogs, <<>>))
    IN [totalRequests |-> Len(logs),
        lastHour |-> Len(recentLogs),
        lastDay |-> Len(todayLogs),
        uniqueVisitors |-> Cardinality({todayLogs[i].ip : i \in 1..Len(todayLogs)}),
        topPaths |-> SubSeq(sorted, 1, IF Len(sorted) < TOP_PATHS THEN Len(sorted)
                                       ELSE TOP_PATHS),
        statusCodes |-> countStatus(todayLogs, EmptyMap),
        avgResponseTime |-> IF Len(todayLogs) > 0
                            THEN Round(sumResponseTime(todayLogs), Len(todayLogs))
                            ELSE 0]

\* getRequestStats() is called
GetRequestStats ==
    /\ reply' = [op |-> "stats", at |-> now, of |-> LoggedEntries,
                 stats |-> getRequestStats(LoggedEntries, now)]
    /\ UNCHANGED <<requestLogs, open, started, appends, logFile, writeErrors, entries,
                   warnings, finished>>

\* Time passes on the server, nothing else happens.
ClockTick(times) ==
    /\ \E t \in times : t > now /\ now' = t
    /\ UNCHANGED auditVars

(***************************************************************************)
(* The middleware chain with requests in progress at the same time         *)
(* (src/backend/server.js:70-96): globalLimiter, the body parsers, which   *)
(* return to the event loop while a body is read, then requestLogger and   *)
(* botDetection, which run one after the other without a break.            *)
(***************************************************************************)
\* Number of requests followed.
MaxArrivals == 5

\* The instants of the requests: a burst, inside one rapid window.
ChainTimes == {0, 5000}

ChainInit ==
    /\ arrived = 0
    /\ parsing = {}
    /\ answer = << >>
    /\ responses = {}

\* A request reaches the server: app.use(globalLimiter). A refused request
\* is answered 429 there and the chain ends.
Admit(ip, ua) ==
    /\ arrived < MaxArrivals
    /\ arrived' = arrived + 1
    /\ LET lim == globalLimiter(hits, ip, now)
       IN /\ hits' = lim.hits
          /\ IF lim.pass
             THEN /\ parsing' = parsing \cup {[n |-> arrived + 1, ip |-> ip, ua |-> ua]}
                  /\ lastOp' = [op |-> "admit", ip |-> ip]
                  /\ UNCHANGED <<response, responses>>
             ELSE /\ response' = Respond(ip, 429, "limiter", LIMITER_RETRY_AFTER)
                  /\ responses' = responses \cup
                        {[n |-> arrived + 1, id |-> 0, t |-> now,
                          status |-> 429, by |-> "limiter"]}
                  /\ lastOp' = [op |-> "limited", ip |-> ip]
                  /\ UNCHANGED parsing
    /\ UNCHANGED <<now, blockedIPs, timers, ipRequestCounts, cleanupDue, request, botInfo,
                   posted, pre, lastBlock, recent, prevReq, lastReqAt, answer, auditVars>>

\* The body of request q has been read: app.use(requestLogger), then
\* app.use(botDetection), then the route, which answers 200.
Detect(q) ==
    /\ q \in parsing
    /\ parsing' = parsing \ {q}
    /\ LET req == [ip |-> q.ip, ua |-> q.ua, referer |-> "", path |-> "/api/health",
                   headers |-> {}]
           id == started + 1
           r == botDetection(RegistryState, req, now)
           ip == q.ip
           had == ip \in DOMAIN ipRequestCounts
       IN /\ started' = id
          /\ open' = open \cup {id}
          /\ entries' = Put(entries, id,
                              NewLogEntry([PlainRequest(q.ip, req.path) EXCEPT
                                              !.userAgent = q.ua], now))
          /\ answer' = Put(answer, id, r.res.status)
          /\ responses' = responses \cup
                {[n |-> q.n, id |-> id, t |-> now, status |-> r.res.status,
                  by |-> r.res.by]}
          /\ request' = req
          /\ botInfo' = r.botInfo
          /\ blockedIPs' = r.st.blockedIPs
          /\ timers' = r.st.timers
          /\ ipRequestCounts' = r.st.ipRequestCounts
          /\ response' = r.res
          /\ pre' = [t |-> now, over |-> FALSE,
                     blocked |-> ip \in blockedIPs,
                     count |-> IF had THEN ipRequestCounts[ip].count ELSE 0,
                     first |-> IF had THEN ipRequestCounts[ip].firstRequest ELSE now,
                     bad |-> MatchesBadBot(q.ua) /\ ~MatchesGoodBot(q.ua),
                     afterBlock |-> FALSE,
                     expired |-> BlockElapsed(ip)]
          /\ lastBlock' = IF r.res.by = "rapid"
                          THEN [lastBlock EXCEPT ![ip] =
                                   [at |-> now, dur |-> IP_BLOCK_DURATION, re |-> FALSE]]
                          ELSE lastBlock
          /\ recent' = IF r.res.by = "blocklist" THEN recent
                       ELSE [recent EXCEPT ![ip] =
                                LastN(Append(@, now), rapidRequests + 1)]
          /\ prevReq' = [prevReq EXCEPT ![ip] =
                            IF response.ip = ip
                            THEN [t |-> lastReqAt[ip], by |-> response.by] ELSE @]
          /\ lastReqAt' = [lastReqAt EXCEPT ![ip] = now]
    /\ lastOp' = [op |-> "request", ip |-> q.ip]
    /\ UNCHANGED <<now, hits, cleanupDue, posted, arrived,
                   requestLogs, appends, logFile, writeErrors, reply, warnings, finished>>

\* The response of the request with logger id `id` has been handed over:
\* the finish handler of requestLogger runs with res.statusCode.
ChainFinish(id) ==
    /\ id \in DOMAIN answer
    /\ Finish(id, answer[id])
    /\ answer' = Without(answer, id)
    /\ UNCHANGED <<now, gatewayVars, arrived, parsing, responses>>

(***************************************************************************)
(* POST /api/auth/login (src/backend/routes/security.js:200-328) behind    *)
(* authLimiter (src/backend/server.js:73-80, 109)                          *)
(***************************************************************************)
\* windowMs: 15 * 60 * 1000 of authLimiter
AUTH_WINDOW_MS == 900000
\* max: 5 of authLimiter
AUTH_MAX == 5
\* the 5 of adminData.loginAttempts >= 5
MAX_LOGIN_ATTEMPTS == 5
\* the 15 * 60 * 1000 of lockedUntil
LOCK_MS == 900000
\* Number of POST /login requests followed.
MaxLogins == 6

\* The addresses the login requests come from.
LoginIPs == {"203.0.113.5", "198.51.100.7"}

\* The passwords posted: none, the admin's, another one.
RightPassword == "admin123"
WrongPassword == "letmein"
Passwords == {"", RightPassword, WrongPassword}

\* The instants of the login requests: around the end of a lock.
LoginTimes == {0, 1000, LOCK_MS, LOCK_MS + 1000, 2 * LOCK_MS}

\* adminData of initAdminFile
InitialAdminData == [loginAttempts |-> 0, lockedUntil |-> null, lastLogin |-> null]

NoLoginReply ==
    [n |-> 0, status |-> 0, by |-> "none", token |-> FALSE, attemptsRemaining |-> null,
     at |-> 0, found |-> InitialAdminData]

\* authLimiter: express-rate-limit with its memory store, keyed by req.ip
authLimiter(h, ip, t) ==
    LET e == IF h[ip].count = 0 \/ t >= h[ip].resetTime
             THEN [count |-> 1, resetTime |-> t + AUTH_WINDOW_MS]
             ELSE [h[ip] EXCEPT !.count = @ + 1]
    IN [hits |-> [h EXCEPT ![ip] = e], pass |-> e.count <= AUTH_MAX]

\* adminData.lockedUntil && new Date(adminData.lockedUntil) > new Date()
IsLocked(adminData, t) == adminData.lockedUntil # null /\ adminData.lockedUntil > t

\* The handler up to its await: [status, adminData, file]; status 0 when it
\* goes on to compare the password with the copy adminData.
loginBefore(f, password, t) ==
    IF password = "" THEN [status |-> 400, adminData |-> f, file |-> f]
    ELSE IF IsLocked(f, t) THEN [status |-> 429, adminData |-> f, file |-> f]
    ELSE IF f.lockedUntil # null /\ f.lockedUntil <= t
         THEN LET reset == [f EXCEPT !.lockedUntil = null, !.loginAttempts = 0]
              IN [status |-> 0, adminData |-> reset, file |-> reset]
         ELSE [status |-> 0, adminData |-> f, file |-> f]

\* the handler after its await, locking at the attempt after the fifth
loginAfterSixth(f, adminData, isValid, t) ==
    IF ~isValid
    THEN LET attempts == adminData.loginAttempts + 1
         IN IF attempts > MAX_LOGIN_ATTEMPTS
            THEN [status |-> 429, token |-> FALSE, attemptsRemaining |-> null,
                  file |-> [adminData EXCEPT !.loginAttempts = attempts,
                                             !.lockedUntil = t + LOCK_MS]]
            ELSE [status |-> 401, token |-> FALSE,
                  attemptsRemaining |-> MAX_LOGIN_ATTEMPTS - attempts,
                  file |-> [adminData EXCEPT !.loginAttempts = attempts]]
    ELSE [status |-> 200, token |-> TRUE, attemptsRemaining |-> null,
          file |-> [adminData EXCEPT !.loginAttempts = 0, !.lastLogin = t]]

\* The handler after its await: [status, token, attemptsRemaining, file]; what
\* it saves is its own copy adminData, whatever the file f holds by now.
loginAfter(f, adminData, isValid, t) ==
    IF ~isValid
    THEN LET attempts == adminData.loginAttempts + 1
         IN IF attempts >= MAX_LOGIN_ATTEMPTS
            THEN [status |-> 429, token |-> FALSE, attemptsRemaining |-> null,
                  file |-> [adminData EXCEPT !.loginAttempts = attempts,
                                             !.lockedUntil = t + LOCK_MS]]
            ELSE [status |-> 401, token |-> FALSE,
                  attemptsRemaining |-> MAX_LOGIN_ATTEMPTS - attempts,
                  file |-> [adminData EXCEPT !.loginAttempts = attempts]]
    ELSE [status |-> 200, token |-> TRUE, attemptsRemaining |-> null,
          file |-> [adminData EXCEPT !.loginAttempts = 0, !.lastLogin = t]]

AuthInit ==
    /\ adminFile = InitialAdminData
    /\ authHits = [ip \in LoginIPs |-> [count |-> 0, resetTime |-> 0]]
    /\ comparing = {}
    /\ logins = 0
    /\ loginReply = NoLoginReply
    /\ evaluated = 0

\* POST /api/auth/login arrives: authLimiter, the validator, then the handler
\* up to await bcrypt.compare.
LoginBegin(ip, password) ==
    /\ logins < MaxLogins
    /\ logins' = logins + 1
    /\ LET lim == authLimiter(authHits, ip, now)
           r == loginBefore(adminFile, password, now)
       IN /\ authHits' = lim.hits
          /\ IF ~lim.pass
             THEN /\ loginReply' = [NoLoginReply EXCEPT !.n = logins + 1, !.status = 429,
                                       !.by = "authLimiter", !.at = now, !.found = adminFile]
                  /\ UNCHANGED <<adminFile, comparing, evaluated>>
             ELSE /\ adminFile' = r.file
                  /\ evaluated' = IF r.file # adminFile THEN 0 ELSE evaluated
                  /\ IF r.status # 0
                     THEN /\ loginReply' = [NoLoginReply EXCEPT !.n = logins + 1,
                                               !.status = r.status, !.by = "handler",
                                               !.at = now, !.found = adminFile]
                          /\ UNCHANGED comparing
                     ELSE /\ comparing' = comparing \cup
                                {[n |-> logins + 1, password |-> password,
                                  adminData |-> r.adminData, found |-> adminFile]}
                          /\ UNCHANGED loginReply

\* bcrypt.compare of the handler c has resolved: the rest of the handler runs.
LoginEnd(c) ==
    /\ c \in comparing
    /\ comparing' = comparing \ {c}
    /\ LET isValid == c.password = RightPassword
           r == loginAfter(adminFile, c.adminData, isValid, now)
       IN /\ adminFile' = r.file
          /\ loginReply' = [n |-> c.n, status |-> r.status, by |-> "handler",
                            token |-> r.token, attemptsRemaining |-> r.attemptsRemaining,
                            at |-> now, found |-> c.found]
          /\ evaluated' = IF isValid THEN 0 ELSE evaluated + 1
    /\ UNCHANGED <<authHits, logins>>

\* Time passes on the server, no handler is resumed.
AuthTick(times) ==
    /\ \E t \in times : t > now /\ now' = t
    /\ UNCHANGED authVars

(***************************************************************************)
(* botDetection with and without the cleanup of ipRequestCounts            *)
(* (src/backend/middleware/botDetection.js:54-126)                         *)
(***************************************************************************)
\* Number of requests sent to botDetection.
MaxProbes == 5

\* The addresses the requests come from.
ProbeIPs == {"203.0.113.5", "198.51.100.7"}

\* The instants of the requests: a burst at the start, requests just before
\* and at the first runs of the cleanup, one when the first block has ended.
ProbeTimes ==
    {0, 5000, CLEANUP_INTERVAL - 5000, CLEANUP_INTERVAL - 1000, CLEANUP_INTERVAL,
     2 * CLEANUP_INTERVAL, IP_BLOCK_DURATION}

ProbeInit ==
    /\ uncleaned = [blockedIPs |-> {}, timers |-> {}, ipRequestCounts |-> << >>]
    /\ uncleanedRes = NoResponse
    /\ probes = 0

\* A request reaches botDetection; the same request is given to the
\* middleware on the state no cleanup has touched.
Probe(ip, ua) ==
    /\ probes < MaxProbes
    /\ probes' = probes + 1
    /\ LET req == [ip |-> ip, ua |-> ua, referer |-> "", path |-> "/api/health",
                   headers |-> {}]
           r == botDetection(RegistryState, req, now)
           u == botDetection(uncleaned, req, now)
       IN /\ request' = req
          /\ botInfo' = r.botInfo
          /\ blockedIPs' = r.st.blockedIPs
          /\ timers' = r.st.timers
          /\ ipRequestCounts' = r.st.ipRequestCounts
          /\ response' = r.res
          /\ uncleaned' = u.st
          /\ uncleanedRes' = u.res
    /\ lastOp' = [op |-> "request", ip |-> ip]
    /\ UNCHANGED <<now, hits, cleanupDue, posted, pre, lastBlock, recent, prevReq, lastReqAt>>

\* A setTimeout callback of blockIP runs, on either state.
ProbeFire(tm) ==
    /\ tm \in timers \cup uncleaned.timers
    /\ tm.due <= now
    /\ IF tm \in timers
       THEN FireTimer(tm)
       ELSE UNCHANGED <<now, gatewayVars>>
    /\ uncleaned' = IF tm \in uncleaned.timers
                    THEN [uncleaned EXCEPT !.timers = @ \ {tm},
                                           !.blockedIPs = @ \ {tm.ip}]
                    ELSE uncleaned
    /\ UNCHANGED <<uncleanedRes, probes>>

\* The cleanup runs on the middleware's map; the other state has no cleanup.
ProbeCleanup == Cleanup /\ UNCHANGED probeVars

\* Time passes, up to the next instant at which a callback is due.
ProbeTick ==
    /\ \E t \in ProbeTimes \cup {tm.due : tm \in timers \cup uncleaned.timers}
                \cup {cleanupDue} :
          /\ t > now
          /\ t <= GatewayHorizon
          /\ t <= cleanupDue
          /\ \A tm \in timers \cup uncleaned.timers : t <= tm.due
          /\ now' = t
    /\ cleanupDue > now
    /\ \A tm \in timers \cup uncleaned.timers : tm.due > now
    /\ UNCHANGED <<gatewayVars, probeVars, tallyVars, performVars>>

(***************************************************************************)
(* Security.performAction and SimpleCaptcha (src/js/security.js:332-416,   *)
(* 490-505)                                                                *)
(***************************************************************************)
\* The answers SimpleCaptcha.generate draws (a + b or a - b in the source).
Answers == {3, 7}

\* The action types performAction is called with.
PerformedTypes == {"merge", "export_all"}

NoClick == [expected |-> null, typed |-> {}, fired |-> {}]

PerformInit ==
    /\ performs = 0
    /\ checked = <<>>
    /\ document = <<>>
    /\ inputs = EmptyMap
    /\ handlers = EmptyMap
    /\ currentAnswer = null
    /\ invoked = EmptyMap
    /\ lastClick = NoClick
    /\ viaCaptcha = {}

\* modal.remove()
RemoveModal(doc, m) == SelectSeq(doc, LAMBDA x : x # m)

\* SimpleCaptcha.verify(userAnswer): parseInt of an empty input is NaN
verify(userAnswer, expected) == userAnswer # null /\ userAnswer = expected

\* The submit closures on one button run one after the other, listeners in the
\* order they were added. st = [document, inputs, currentAnswer, invoked, log,
\* fired]; next is the answer generate() draws after a wrong one.
\* document.getElementById('captchaInput') is the first such input of the
\* document; with no modal left the closure throws on .value of null.
RECURSIVE RunSubmit(_, _, _)
RunSubmit(cs, st, next) ==
    IF cs = <<>> THEN st
    ELSE LET c == Head(cs)
         IN IF st.document = <<>> THEN RunSubmit(Tail(cs), st, next)
            ELSE LET first == st.document[1]
                 IN IF verify(st.inputs[first], st.currentAnswer)
                    THEN RunSubmit(Tail(cs),
                            [st EXCEPT !.document = RemoveModal(@, c),
                                       !.invoked = Put(@, c, st.invoked[c] + 1),
                                       !.fired = @ \cup {c}],
                            next)
                    ELSE RunSubmit(Tail(cs),
                            [st EXCEPT !.log = logSecurityEvent(@, "captcha_failed"),
                                       !.inputs = Put(@, first, null),
                                       !.currentAnswer = next],
                            next)

\* The cancel closures on one button: each removes the modal of its own call.
RECURSIVE RunCancel(_, _)
RunCancel(cs, doc) ==
    IF cs = <<>> THEN doc ELSE RunCancel(Tail(cs), RemoveModal(doc, Head(cs)))

\* Security.performAction(actionType, callback)
PerformAction(actionType) ==
    /\ CheckAction(actionType)
    /\ performs' = performs + 1
    /\ LET id == performs + 1
           r == checkAction(LimiterState, securityLog, honeypot, score, actionType, now)
       IN /\ checked' = Append(checked, [ret |-> r.ret, field |-> honeypot])
          /\ IF r.ret.allowed
             THEN /\ invoked' = Put(invoked, id, 1)
                  /\ UNCHANGED <<document, inputs, handlers, currentAnswer>>
             ELSE IF r.ret.requiresCaptcha
             THEN LET target == IF document = <<>> THEN id ELSE document[1]
                  IN /\ \E drawn \in Answers : currentAnswer' = drawn
                     /\ document' = Append(document, id)
                     /\ inputs' = Put(inputs, id, null)
                     /\ handlers' =
                           Put(Put(handlers, id, Get(handlers, id, <<>>)), target,
                               Append(Get(handlers, target, <<>>), id))
                     /\ invoked' = Put(invoked, id, 0)
             ELSE /\ invoked' = Put(invoked, id, 0)
                  /\ UNCHANGED <<document, inputs, handlers, currentAnswer>>
    /\ UNCHANGED <<lastClick, viaCaptcha>>

\* The visitor types an answer into the input of a modal.
TypeAnswer(m, value) ==
    /\ \E i \in 1..Len(document) : document[i] = m
    /\ inputs[m] # value
    /\ inputs' = Put(inputs, m, value)
    /\ UNCHANGED <<now, limiterVars, pageVars, performs, checked, document, handlers,
                   currentAnswer, invoked, lastClick, viaCaptcha>>

\* The visitor clicks Verify of a modal (or presses Enter in its input).
ClickVerify(m) ==
    /\ \E i \in 1..Len(document) : document[i] = m
    /\ handlers[m] # <<>>
    /\ \E next \in Answers :
          LET st == RunSubmit(handlers[m],
                       [document |-> document, inputs |-> inputs,
                        currentAnswer |-> currentAnswer, invoked |-> invoked,
                        log |-> securityLog, fired |-> {}],
                       next)
          IN /\ document' = st.document
             /\ inputs' = st.inputs
             /\ currentAnswer' = st.currentAnswer
             /\ invoked' = st.invoked
             /\ securityLog' = st.log
             /\ viaCaptcha' = viaCaptcha \cup st.fired
             /\ lastClick' = [expected |-> currentAnswer,
                              typed |-> {inputs[document[i]] : i \in 1..Len(document)},
                              fired |-> st.fired]
    /\ UNCHANGED <<now, requests, blocked, blockedUntil, result, calls, violatedAt, pageVars,
                   performs, checked, handlers>>

\* The visitor clicks Cancel of a modal.
ClickCancel(m) ==
    /\ \E i \in 1..Len(document) : document[i] = m
    /\ handlers[m] # <<>>
    /\ document' = RunCancel(handlers[m], document)
    /\ UNCHANGED <<now, limiterVars, pageVars, performs, checked, inputs, handlers,
                   currentAnswer, invoked, lastClick, viaCaptcha>>

(***************************************************************************)
(* Specifications                                                          *)
(***************************************************************************)
InitAll == now = 0 /\ LimiterInit /\ PageInit /\ GatewayInit /\ AnalyticsInit /\ MirrorInit
           /\ AuditInit /\ ChainInit /\ AuthInit /\ ProbeInit
           /\ TallyInit /\ PerformInit

NextLimiter ==
    /\ CheckLimit \/ GetStatus \/ Reset \/ LimiterTick
    /\ UNCHANGED <<pageVars, gatewayVars, analyticsVars, mirrorVars, auditVars, chainVars, authVars, probeVars, tallyVars, performVars>>
SpecLimiter == InitAll /\ [][NextLimiter]_vars

\* BotDetector under the events of a page visit.
NextHumanness ==
    /\ \/ \E hasForm \in BOOLEAN : SecurityInit(hasForm)
       \/ MouseMove
       \/ KeyDown
       \/ Scroll
       \/ TouchStart
       \/ DwellTimer
       \/ StoreSession
       \/ PageTick
    /\ UNCHANGED <<gatewayVars, analyticsVars, mirrorVars, auditVars, chainVars, authVars, probeVars, tallyVars, performVars>>
SpecHumanness == InitAll /\ [][NextHumanness]_vars

\* Security.checkAction on a page whose visitor types, scrolls and touches,
\* with a script that may fill the honeypot field.
NextActions ==
    /\ \/ \E hasForm \in BOOLEAN : SecurityInit(hasForm)
       \/ KeyDown
       \/ Scroll
       \/ TouchStart
       \/ FillHoneypot
       \/ \E a \in ActionTypes : CheckAction(a)
    /\ UNCHANGED <<gatewayVars, analyticsVars, mirrorVars, auditVars, chainVars, authVars, probeVars, tallyVars, performVars>>
SpecActions == InitAll /\ [][NextActions]_vars

\* The block registry under admin calls: every posted duration, requests of a browser.
NextRegistry ==
    /\ \/ \E ip \in IPs : now \in RegistryTimes /\ Request(ip, Browser)
       \/ \E ip \in IPs, d \in PostedDurations :
             now \in AdminTimes /\ PostBlock(ip, d)
       \/ \E ip \in IPs : now \in AdminTimes /\ PostUnblock(ip)
       \/ \E tm \in timers : FireTimer(tm)
       \/ Cleanup
       \/ GatewayTick(RegistryTimes \cup AdminTimes)
    /\ UNCHANGED <<browserVars, analyticsVars, mirrorVars, auditVars, chainVars, authVars, probeVars, tallyVars, performVars>>
SpecRegistry == InitAll /\ [][NextRegistry]_vars

\* The protected routes of the registry: callers with every kind of
\* Authorization header asking to block or unblock the client's address, and
\* the logged-in admin posting every kind of body.
NextAdmin ==
    /\ \/ \E auth \in AuthHeaders, ip \in IPs, d \in PostedDurations :
             /\ now \in AdminTimes
             /\ Cardinality(timers) < MaxTimers
             /\ AdminBlock(auth, [ip |-> ip, duration |-> d])
       \/ \E ip \in PostedIPs, d \in ValidatedDurations :
             /\ now \in AdminTimes
             /\ Cardinality(timers) < MaxTimers
             /\ AdminBlock(<<"Bearer", FreshToken>>, [ip |-> ip, duration |-> d])
       \/ \E auth \in AuthHeaders, ip \in IPs \cup {""} :
             now \in AdminTimes /\ AdminUnblock(auth, [ip |-> ip, duration |-> null])
       \/ \E tm \in timers : FireTimer(tm)
       \/ Cleanup
       \/ GatewayTick(AdminTimes \cup {1000})
    /\ UNCHANGED <<browserVars, analyticsVars, mirrorVars, auditVars, chainVars, authVars, probeVars, tallyVars, performVars>>
SpecAdmin == InitAll /\ [][NextAdmin]_vars

\* The middleware chain under request series of every user agent, with the
\* admin blocking and unblocking at the first instant.
NextGateway ==
    /\ \/ \E ip \in IPs, ua \in UserAgents : now \in GatewayTimes /\ Request(ip, ua)
       \/ \E ip \in IPs : now = 0 /\ PostBlock(ip, null)
       \/ \E ip \in IPs : now = 0 /\ PostUnblock(ip)
       \/ \E tm \in timers : FireTimer(tm)
       \/ Cleanup
       \/ GatewayTick(GatewayTimes)
    /\ UNCHANGED <<browserVars, analyticsVars, mirrorVars, auditVars, chainVars, authVars, probeVars, tallyVars, performVars>>
SpecGateway == InitAll /\ [][NextGateway]_vars

\* The analytics store under concurrent POST /track requests and retention sweeps.
NextAnalytics ==
    /\ \/ \E ev \in TrackInputs : Arrive(ev)
       \/ \E ev \in TrackInputs : Track(ev)
       \/ \E ev \in TrackInputs : TrackAtMidnight(ev)
       \/ GetSnapshot
       \/ Sweep
       \/ DayTick
    /\ UNCHANGED <<now, browserVars, gatewayVars, mirrorVars, auditVars, chainVars, authVars, probeVars, tallyVars, performVars>>
SpecAnalytics == InitAll /\ [][NextAnalytics]_vars

\* The analytics store with the admin's export, import and clear, and with the
\* file damaged or removed from outside.
NextStore ==
    /\ \/ \E ev \in StoreInputs : Arrive(ev)
       \/ \E ev \in StoreInputs : Track(ev)
       \/ \E ev \in StoreInputs : TrackAtMidnight(ev)
       \/ GetSnapshot
       \/ Sweep
       \/ DayTick
       \/ Export
       \/ Import
       \/ ClearAll
       \/ Damage
       \/ Remove
    /\ UNCHANGED <<now, browserVars, gatewayVars, mirrorVars, auditVars, chainVars, authVars, probeVars, tallyVars, performVars>>
SpecStore == InitAll /\ [][NextStore]_vars

\* The bodies sent where the retention of both stores is followed.
RetentionInputs == {ev \in TrackInputs : ev.event = "pageview"}
RetentionTools == {"merge"}

\* The dated buckets of the server's store and of the browser's mirror under
\* ingests on successive dates and retention sweeps; the server's requests
\* are sent one at a time.
NextRetention ==
    \/ /\ \/ \E ev \in RetentionInputs : total(inflight, TrackInputs) = 0 /\ Arrive(ev)
          \/ \E ev \in RetentionInputs : Track(ev)
          \/ Sweep
       /\ UNCHANGED <<now, browserVars, gatewayVars, mirrorVars, auditVars, chainVars, authVars, probeVars, tallyVars, performVars>>
    \/ /\ DayTick
       /\ UNCHANGED <<now, browserVars, gatewayVars, mirrorVars, auditVars, chainVars, authVars, probeVars, tallyVars, performVars>>
    \/ /\ \/ PageLoad
          \/ \E t \in RetentionTools : MirrorToolUsage(t)
          \/ MirrorClean
       /\ UNCHANGED <<now, browserVars, gatewayVars, analyticsVars, auditVars, chainVars, authVars, probeVars, tallyVars, performVars>>
SpecRetention == InitAll /\ [][NextRetention]_vars

\* The requests whose signature is classified.
SignatureRequests ==
    [ip : IPs, ua : AllUserAgents, referer : {"", "https://example.org/"},
     path : {"/", "/api/health"}, headers : SUBSET suspiciousHeaders]

\* Requests of every signature through the middleware chain, at one instant.
NextClassifier ==
    /\ \E req \in SignatureRequests : Serve(req)
    /\ UNCHANGED <<browserVars, analyticsVars, mirrorVars, auditVars, chainVars, authVars, probeVars, tallyVars, performVars>>
SpecClassifier == InitAll /\ [][NextClassifier]_vars

\* The request logger with its durable append, under requests in progress
\* at the same time.
NextAuditLog ==
    /\ \/ LogRequest
       \/ \E id \in 1..MaxLogged : Finish(id, 200)
       \/ \E e \in appends, err \in BOOLEAN : AppendDone(e, err)
    /\ UNCHANGED <<now, browserVars, gatewayVars, analyticsVars, mirrorVars, chainVars, authVars, probeVars, tallyVars, performVars>>
SpecAuditLog == InitAll /\ [][NextAuditLog]_vars

\* The queries of the log, under requests that are logged and written one
\* after the other.
NextLogQueries ==
    /\ \/ open = {} /\ appends = {} /\ LogRequest
       \/ \E id \in 1..MaxLogged, code \in StatusCodes : Finish(id, code)
       \/ \E e \in appends : AppendDone(e, FALSE)
       \/ \E limit \in RecentLimits : GetRecentLogs(limit)
       \/ \E text \in QueryLimits : GetLogs(text)
       \/ GetStatus200
    /\ UNCHANGED <<now, browserVars, gatewayVars, analyticsVars, mirrorVars, chainVars, authVars, probeVars, tallyVars, performVars>>
SpecLogQueries == InitAll /\ [][NextLogQueries]_vars

\* The chain under requests of one address that are in progress together,
\* up to the first run of the cleanup.
NextChain ==
    /\ \/ \E ip \in IPs : now \in ChainTimes /\ Admit(ip, Browser)
       \/ \E q \in parsing : Detect(q)
       \/ \E id \in DOMAIN answer : ChainFinish(id)
       \/ /\ GatewayTick(ChainTimes)
          /\ UNCHANGED <<auditVars, chainVars>>
    /\ UNCHANGED <<browserVars, analyticsVars, mirrorVars, authVars, probeVars, tallyVars, performVars>>
SpecChain == InitAll /\ [][NextChain]_vars

\* The instants of a burst that reaches the end of the rapid window.
BurstTimes == {0, 5000, RAPID_WINDOW - 1, RAPID_WINDOW}

\* The same requests up to botDetection's decision, their responses not yet
\* handed over.
NextBurst ==
    /\ \/ \E ip \in IPs : now \in BurstTimes /\ Admit(ip, Browser)
       \/ \E q \in parsing : Detect(q)
       \/ /\ GatewayTick(BurstTimes)
          /\ UNCHANGED <<auditVars, chainVars>>
    /\ UNCHANGED <<browserVars, analyticsVars, mirrorVars, authVars, probeVars, tallyVars, performVars>>
SpecBurst == InitAll /\ [][NextBurst]_vars

\* The instants at which overlapping requests start and finish.
OverlapTimes == {0, 10, 20}
\* Number of requests followed where they overlap.
MaxOverlap == 3

\* The log and its recent-logs query under requests that are in progress at
\* the same time and finish in any order.
NextOverlap ==
    /\ \/ started < MaxOverlap /\ LogRequest /\ UNCHANGED now
       \/ \E id \in 1..MaxOverlap : Finish(id, 200) /\ UNCHANGED now
       \/ \E limit \in RecentLimits : GetRecentLogs(limit) /\ UNCHANGED now
       \/ ClockTick(OverlapTimes)
    /\ UNCHANGED <<browserVars, gatewayVars, analyticsVars, mirrorVars, chainVars, authVars, probeVars, tallyVars, performVars>>
SpecOverlap == InitAll /\ [][NextOverlap]_vars

\* The instants of the requests whose statistics are taken: around the ends
\* of the last hour and of the last day.
StatsTimes == {0, 1, 3600000, 86400000}
\* Number of requests followed where the statistics are taken.
MaxStats == 3

\* The statistics of the log under requests of several addresses and paths,
\* answered one after the other, over more than a day.
NextLogStats ==
    /\ \/ \E q \in StatsRequests :
             open = {} /\ started < MaxStats /\ LogRequestOf(q.ip, q.path) /\ UNCHANGED now
       \/ \E id \in open, q \in StatsRequests :
             entries[id].path = q.path /\ Finish(id, q.status) /\ UNCHANGED now
       \/ open = {} /\ GetRequestStats /\ UNCHANGED now
       \/ ClockTick(StatsTimes)
    /\ UNCHANGED <<browserVars, gatewayVars, analyticsVars, mirrorVars, chainVars, authVars, probeVars, tallyVars, performVars>>
SpecLogStats == InitAll /\ [][NextLogStats]_vars

\* One body of each event type.
IngestInputs == {ev \in TrackInputs : ev.tool \in {"", "merge"} /\ ev.visitor = "v1"}

\* Events of every type ingested on successive dates by the server, one
\* request at a time, and by the Analytics object of a page that stays open.
NextIngest ==
    \/ /\ \/ \E ev \in IngestInputs : total(inflight, TrackInputs) = 0 /\ Arrive(ev)
          \/ \E ev \in IngestInputs : Track(ev)
       /\ UNCHANGED <<now, browserVars, gatewayVars, mirrorVars, auditVars, chainVars, authVars, probeVars, tallyVars, performVars>>
    \/ /\ DayTick
       /\ UNCHANGED <<now, browserVars, gatewayVars, mirrorVars, auditVars, chainVars, authVars, probeVars, tallyVars, performVars>>
    \/ /\ \/ PageLoad
          \/ MirrorToolUsage("merge")
          \/ \E success \in BOOLEAN : MirrorFileProcessed(1024, success)
          \/ MirrorError("merge_failed")
       /\ UNCHANGED <<now, browserVars, gatewayVars, analyticsVars, auditVars, chainVars, authVars, probeVars, tallyVars, performVars>>
SpecIngest == InitAll /\ [][NextIngest]_vars

\* Number of requests followed where their entries are tested.
MaxSuspects == 2

\* Requests with the texts of the pattern library, answered one after the other.
NextSuspicion ==
    /\ \/ \E req \in SuspectRequests :
             open = {} /\ started < MaxSuspects /\ LogRequestWith(req)
       \/ \E id \in open, code \in StatusCodes : Finish(id, code)
    /\ UNCHANGED <<now, browserVars, gatewayVars, analyticsVars, mirrorVars, chainVars, authVars, probeVars, tallyVars, performVars>>
SpecSuspicion == InitAll /\ [][NextSuspicion]_vars

\* Login attempts sent one after the other: each is answered before the
\* next arrives.
NextLogin ==
    /\ \/ \E ip \in LoginIPs, password \in Passwords :
             comparing = {} /\ LoginBegin(ip, password) /\ UNCHANGED now
       \/ \E c \in comparing : LoginEnd(c) /\ UNCHANGED now
       \/ comparing = {} /\ AuthTick(LoginTimes)
    /\ UNCHANGED <<browserVars, gatewayVars, analyticsVars, mirrorVars, auditVars, chainVars, probeVars, tallyVars, performVars>>
SpecLogin == InitAll /\ [][NextLogin]_vars

\* Number of login requests followed where they are in progress together.
MaxRace == 6

\* Login attempts with a wrong password from several addresses, in progress
\* at the same time.
NextLoginRace ==
    /\ \/ \E ip \in LoginIPs :
             logins < MaxRace /\ LoginBegin(ip, WrongPassword) /\ UNCHANGED now
       \/ \E c \in comparing : LoginEnd(c) /\ UNCHANGED now
       \/ AuthTick({1000})
    /\ UNCHANGED <<browserVars, gatewayVars, analyticsVars, mirrorVars, auditVars, chainVars, probeVars, tallyVars, performVars>>
SpecLoginRace == InitAll /\ [][NextLoginRace]_vars

\* botDetection under requests of two addresses, with the cleanup running
\* every CLEANUP_INTERVAL.
NextCleanup ==
    /\ \/ \E ip \in ProbeIPs, ua \in UserAgents : Probe(ip, ua)
       \/ \E tm \in timers \cup uncleaned.timers : ProbeFire(tm)
       \/ ProbeCleanup
       \/ ProbeTick
    /\ UNCHANGED <<browserVars, analyticsVars, mirrorVars, auditVars, chainVars, authVars,
                   tallyVars, performVars>>
SpecCleanup == InitAll /\ [][NextCleanup]_vars


\* The store from its initial document under POST /track requests handled one
\* after the other, the daily sweep and the passing of midnight.
NextTally ==
    /\ \/ \E ev \in TallyInputs : TallyPost(ev)
       \/ TallySweep
       \/ DayTick /\ UNCHANGED <<received, pruned>>
    /\ UNCHANGED <<now, browserVars, gatewayVars, mirrorVars, auditVars, chainVars, authVars,
                   probeVars, performVars>>
SpecTally == InitAll /\ [][NextTally]_vars

\* The clicks are followed until a callback has run this many times.
MaxRuns == 2

\* Guarded actions on a page whose visitor answers, or leaves, the captcha
\* modals they bring up.
NextPerform ==
    /\ \/ /\ \/ SecurityInit(TRUE)
             \/ FillHoneypot
          /\ UNCHANGED performVars
       \/ \E a \in PerformedTypes : PerformAction(a)
       \/ \E m \in DOMAIN inputs, value \in Answers : TypeAnswer(m, value)
       \/ \E m \in DOMAIN handlers :
             (\A c \in DOMAIN invoked : invoked[c] < MaxRuns) /\ ClickVerify(m)
       \/ \E m \in DOMAIN handlers : ClickCancel(m)
    /\ UNCHANGED <<gatewayVars, analyticsVars, mirrorVars, auditVars, chainVars, authVars,
                   probeVars, tallyVars>>
SpecPerform == InitAll /\ [][NextPerform]_vars

(***************************************************************************)
(* Claims about the RateLimiter                                            *)
(***************************************************************************)
\* Number of checkLimit calls made less than a window before call i, call i included.
CallsInSpan(i) ==
    Cardinality({j \in 1..i : calls[i].t - calls[j].t < RATE_LIMIT_WINDOW})

\* No span of RATE_LIMIT_WINDOW holds more than MAX_REQUESTS_PER_WINDOW calls.
WithinLimit ==
    \A i \in 1..Len(calls) : CallsInSpan(i) <= MAX_REQUESTS_PER_WINDOW

\* C1: starting from a fresh or reset limiter, if no span of RATE_LIMIT_WINDOW
\* holds more than MAX_REQUESTS_PER_WINDOW checkLimit calls, every call made so
\* far returned allowed = true.
C1_WithinLimitAllowed ==
    WithinLimit => \A i \in 1..Len(calls) : calls[i].allowed

\* More calls than the limit, spread over more than one window, all allowed.
C1_Witness ==
    /\ WithinLimit
    /\ Len(calls) > MAX_REQUESTS_PER_WINDOW
    /\ CallsInSpan(Len(calls)) = MAX_REQUESTS_PER_WINDOW
    /\ result.op = "checkLimit" /\ result.allowed /\ result.remaining = 0

LastCall == calls[Len(calls)]

\* The MAX_REQUESTS_PER_WINDOW calls before the last one were all allowed and
\* lie less than a window before it.
LimitReached ==
    /\ Len(calls) > MAX_REQUESTS_PER_WINDOW
    /\ \A k \in 1..MAX_REQUESTS_PER_WINDOW :
          /\ calls[Len(calls) - k].allowed
          /\ LastCall.t - calls[Len(calls) - k].t < RATE_LIMIT_WINDOW

\* The last call is the first one made BLOCK_DURATION or more after the violation.
FirstAfterBlock ==
    /\ violatedAt # null
    /\ Len(calls) >= 2
    /\ LastCall.t >= violatedAt + BLOCK_DURATION
    /\ calls[Len(calls) - 1].t < violatedAt + BLOCK_DURATION

\* C2: the check after MAX_REQUESTS_PER_WINDOW allowed checks of the current
\* window is refused with retryAfter = BLOCK_DURATION / 1000; every check made
\* less than BLOCK_DURATION after that violation is refused; the first check
\* made BLOCK_DURATION or more after it is allowed with remaining = MAX - 1.
C2_EscalatedBlock ==
    (result.op = "checkLimit") =>
        /\ LimitReached =>
              ~result.allowed /\ result.retryAfter = BLOCK_DURATION \div 1000
        /\ (violatedAt # null /\ LastCall.t < violatedAt + BLOCK_DURATION) =>
              ~result.allowed
        /\ FirstAfterBlock =>
              result.allowed /\ result.remaining = MAX_REQUESTS_PER_WINDOW - 1

\* Limit reached, violation, a refused check during the block, then the first
\* check after the block.
C2_Witness ==
    /\ result.op = "checkLimit"
    /\ FirstAfterBlock
    /\ Len(calls) >= MAX_REQUESTS_PER_WINDOW + 3
    /\ calls[Len(calls) - 1].t > violatedAt
    /\ ~calls[Len(calls) - 1].allowed
    /\ \A k \in 1..MAX_REQUESTS_PER_WINDOW : calls[k].allowed
    /\ result.allowed

(***************************************************************************)
(* Claims about the block registry and the middleware chain                *)
(***************************************************************************)
\* The last event is a request that globalLimiter let through to botDetection.
ReachedBotDetection == lastOp.op = "request" /\ ~pre.over

\* C3: after a block of ip for D ms, the request of ip that follows at once is
\* answered 403 by the block check; once D ms have passed since the last block
\* call and the expiry callback has run, ip is not in the registry and its
\* request is not answered 403 (requests that reach botDetection; browser).
C3_BlockThenExpire ==
    /\ \A ip \in IPs : BlockElapsed(ip) => ip \notin blockedIPs
    /\ ReachedBotDetection =>
          /\ pre.afterBlock => response.status = 403 /\ response.by = "blocklist"
          /\ pre.expired => response.by # "blocklist"
          /\ (pre.expired /\ ~pre.bad) => response.status # 403

\* A block for 1000 ms: the request before the last was answered by the block
\* check, the last one came after the expiry and was accepted.
C3_Witness ==
    /\ lastOp.op = "request"
    /\ pre.expired
    /\ response.status = 200
    /\ lastBlock[response.ip].dur = 1000
    /\ prevReq[response.ip].by = "blocklist"
    /\ prevReq[response.ip].t = lastBlock[response.ip].at

\* C4: an ip blocked again while still blocked stays blocked at every instant
\* before the end of the new block, unless it is unblocked.
C4_ReblockKeepsCoverage ==
    \A ip \in IPs :
        (/\ lastBlock[ip].at # null
         /\ lastBlock[ip].re
         /\ now < lastBlock[ip].at + lastBlock[ip].dur) => ip \in blockedIPs

PreRapid ==
    pre.count + 1 > rapidRequests /\ pre.t - pre.first < RAPID_WINDOW

BurstEndsNow(ip) ==
    /\ lastOp = [op |-> "request", ip |-> ip]
    /\ response.by \notin {"limiter", "blocklist"}
    /\ Len(recent[ip]) = rapidRequests + 1
    /\ pre.t - recent[ip][1] < RAPID_WINDOW

\* C6 as claimed: wherever the burst falls, the request that exceeds the
\* threshold is answered 429 and the ip is put in the block registry.
C6_AnyBurstBlocked ==
    \A ip \in IPs : BurstEndsNow(ip) => response.status = 429 /\ ip \in blockedIPs

\* C6: when botDetection counts more than rapidRequests requests of an ip and
\* less than RAPID_WINDOW has passed since the start of the ip's counter window,
\* the request is answered 429 and the ip is put in the block registry with a
\* removal timer BLOCK_DURATION later.
C6_RapidWithinCounterWindow ==
    (ReachedBotDetection /\ ~pre.blocked /\ PreRapid) =>
        /\ response.status = 429 /\ response.by = "rapid"
        /\ response.ip \in blockedIPs
        /\ [ip |-> response.ip, due |-> pre.t + IP_BLOCK_DURATION] \in timers

\* The request that exceeds the threshold inside the counter's window.
C6_Witness ==
    /\ ReachedBotDetection /\ ~pre.blocked
    /\ pre.count = rapidRequests
    /\ pre.t - pre.first < RAPID_WINDOW /\ pre.t > pre.first
    /\ response.by = "rapid"
    /\ response.ip \in blockedIPs

LimitedLongAgo(ip) ==
    /\ lastOp = [op |-> "request", ip |-> ip]
    /\ prevReq[ip].by = "limiter"
    /\ pre.t - prevReq[ip].t >= 301000

C8_RoundTripSameSnapshot ==
    (outcome.op = "import" /\ atExport.fresh) =>
        /\ getAnalytics(file).ok
        /\ snapshot(getAnalytics(file).data, today) = atExport.snap
        /\ SeenVisitors(file) = atExport.ids

\* C9: an operation that reads a file whose content cannot be parsed completes
\* normally and leaves a parseable store behind.
C9_CorruptFileReinitialized ==
    (outcome.wasCorrupt /\ outcome.op \in {"track", "snapshot", "export", "sweep"}) =>
        /\ outcome.status = 200
        /\ Readable(file)

HandledOf(kind, d) ==
    total(handled, {k \in TrackInputs \X Days : k[1].event = kind /\ k[2] = d})

HandledEver(kind) ==
    total(handled, {k \in TrackInputs \X Days : k[1].event = kind})

ActiveDays == {d \in Days : \E ev \in TrackInputs : handled[ev, d] > 0}

FirstSeenOn(v, d) ==
    \E ev \in TrackInputs :
        /\ ev.event = "session_start" /\ ev.visitor = v
        /\ handled[ev, d] > 0
        /\ \A e \in Days : e < d => handled[ev, e] = 0

BucketMatches(d) ==
    LET b == file.dailyStats[d]
    IN /\ b.pageViews = HandledOf("pageview", d)
       /\ b.toolUses = HandledOf("tool_use", d)
       /\ b.filesProcessed = HandledOf("file_processed", d)
       /\ b.bytesProcessed = 1024 * HandledOf("file_processed", d)
       /\ b.errors = HandledOf("error", d)
       /\ b.uniqueVisitors = Cardinality({v \in Visitors : FirstSeenOn(v, d)})
       /\ \A ev \in TrackInputs :
              ev.event = "tool_use" => Get(b.tools, ev.tool, 0) = handled[ev, d]

\* C10: whatever the interleaving of received POST /track requests and
\* retention sweeps, the persisted counters are those of the handled events
\* applied one after another: every handled event is counted exactly once, and
\* a bucket is absent only when maxDays later ones exist.
C10_NoLostUpdate ==
    /\ Readable(file)
    /\ file.totalPageViews = HandledEver("pageview")
    /\ file.totalToolUses = HandledEver("tool_use")
    /\ \A ev \in TrackInputs :
           ev.event = "tool_use" =>
               ToolCount(file.toolUsage, ev.tool) = total(handled, {ev} \X Days)
    /\ file.uniqueVisitors.kind = "array"
    /\ file.uniqueVisitors.ids =
           {ev.visitor : ev \in {e \in TrackInputs :
               e.event = "session_start" /\ total(handled, {e} \X Days) > 0}}
    /\ DOMAIN file.dailyStats \subseteq ActiveDays
    /\ \A d \in DOMAIN file.dailyStats : BucketMatches(d)
    /\ \A d \in ActiveDays \ DOMAIN file.dailyStats :
           Cardinality({e \in DOMAIN file.dailyStats : e > d}) >= maxDays

\* C10 witness: a sweep has just run between two handled requests and one
\* that is still in flight, with the store at its retention limit.
C10_Witness ==
    /\ outcome.op = "sweep"
    /\ total(handled, TrackInputs \X Days) >= 2
    /\ total(inflight, TrackInputs) >= 1
    /\ Cardinality(DOMAIN file.dailyStats) = maxDays

\* A step in which POST /track of ev has been handled with success.
TrackedStep(ev) ==
    /\ inflight'[ev] = inflight[ev] - 1
    /\ outcome'.op = "track"
    /\ outcome'.status = 200

BucketBefore(d) == IF d \in DOMAIN file.dailyStats THEN file.dailyStats[d] ELSE EmptyBucket

OtherBucketsKept(d) ==
    \A e \in DOMAIN file.dailyStats \ {d} :
        e \in DOMAIN file'.dailyStats /\ file'.dailyStats[e] = file.dailyStats[e]

C12_VisitorCountedOnce ==
    [][\A ev \in TrackInputs :
          (ev.event = "session_start" /\ TrackedStep(ev)) =>
              LET d == today'
                  old == BucketBefore(d)
              IN /\ d \in DOMAIN file'.dailyStats
                 /\ OtherBucketsKept(d)
                 /\ IF ev.visitor \in SeenVisitors(file)
                    THEN /\ SeenVisitors(file') = SeenVisitors(file)
                         /\ file'.dailyStats[d] = old
                    ELSE /\ SeenVisitors(file') = SeenVisitors(file) \cup {ev.visitor}
                         /\ file'.dailyStats[d] = [old EXCEPT !.uniqueVisitors = @ + 1]]_vars

\* C12 witness: a visitor's session_start has been handled on one date and a
\* session_start of the same visitor has just been handled on a later date,
\* whose bucket counts no unique visitor.
C12_Witness ==
    \E ev \in TrackInputs, d \in Days, e \in Days :
        /\ ev.event = "session_start" /\ d < e /\ e = today
        /\ handled[ev, d] = 1 /\ handled[ev, e] = 1
        /\ outcome.op = "track"
        /\ e \in DOMAIN file.dailyStats
        /\ file.dailyStats[e].uniqueVisitors = 0
        /\ SeenVisitors(file) = {ev.visitor}

\* The maxDays most recent of a set of dates (all of them if there are fewer).
LatestDays(dates) == {d \in dates : Cardinality({e \in dates : e > d}) < maxDays}

SweptTo(before, after) ==
    /\ DOMAIN after.dailyStats = LatestDays(DOMAIN before.dailyStats)
    /\ \A d \in DOMAIN after.dailyStats : after.dailyStats[d] = before.dailyStats[d]
    /\ after.toolUsage = before.toolUsage
    /\ after.totalPageViews = before.totalPageViews
    /\ after.totalToolUses = before.totalToolUses

\* C13: a step that ends with a completed retention sweep as the store's last
\* operation, on the server (cleanupOldData) or in the browser (cleanOldData),
\* leaves exactly the maxDays most recent dated buckets, each with its
\* content, and the lifetime counters as they were; with maxDays or fewer
\* buckets nothing is removed.
C13_SweepKeepsLatest ==
    [][/\ (outcome'.op = "sweep" /\ outcome'.status = 200) =>
              /\ SweptTo(file, file')
              /\ file'.uniqueVisitors = file.uniqueVisitors
       /\ mirrorOutcome'.op = "cleanOldData" =>
              /\ SweptTo(local.analytics, local'.analytics)
              /\ local'.analytics.uniqueVisits = local.analytics.uniqueVisits]_vars

\* C13 witness: the server's sweep has just cut maxDays + 2 populated dates
\* down to the latest maxDays, and the browser's sweep has cut its store, to
\* which every call added a count on a different date, down to maxDays buckets.
C13_Witness ==
    /\ outcome.op = "sweep"
    /\ Cardinality(ActiveDays) = maxDays + 2
    /\ DOMAIN file.dailyStats = LatestDays(ActiveDays)
    /\ file.totalPageViews = maxDays + 2
    /\ mirrorOutcome.op = "cleanOldData"
    /\ mirrorCalls = MaxMirrorCalls
    /\ Cardinality(DOMAIN local.analytics.dailyStats) = maxDays
    /\ local.analytics.totalPageViews + local.analytics.totalToolUses = MaxMirrorCalls
    /\ \A d \in DOMAIN local.analytics.dailyStats :
           local.analytics.dailyStats[d].pageViews + local.analytics.dailyStats[d].toolUses = 1

(***************************************************************************)
(* Claims about the bot classifier                                         *)
(***************************************************************************)
\* C14: a request whose user agent matches a GOOD_BOTS pattern is classified
\* isBot = true, botType = good, suspiciousScore = 0, whatever its referer,
\* headers and length and whether or not a BOT_USER_AGENTS pattern matches
\* too, and the chain does not answer it with the bad-bot 403.
C14_GoodBotAuthoritative ==
    (lastOp.op = "request" /\ MatchesGoodBot(request.ua)) =>
        /\ response.by # "badbot"
        /\ botInfo # NoBotInfo =>
               botInfo = [isBot |-> TRUE, botType |-> "good", suspiciousScore |-> 0]

\* C14 witness: a short user agent that names a crawler and matches /curl/i
\* and /bot/i, sent with every suspicious header and no referer to a page
\* path, has been classified and let through.
C14_Witness ==
    /\ lastOp.op = "request"
    /\ request.ua = CurlAsGooglebot
    /\ MatchesBadBot(request.ua)
    /\ request.headers = suspiciousHeaders
    /\ request.referer = "" /\ request.path = "/"
    /\ botInfo.botType = "good"
    /\ response.status = 200

\* The sum of the increments that apply to a request.
Increments(req) ==
    (IF req.ua = "" THEN 3 ELSE 0)
    + (IF \E text \in BOT_USER_AGENTS : Test(text, req.ua) THEN 5 ELSE 0)
    + (IF req.referer = "" /\ ~IsApiPath(req.path) THEN 1 ELSE 0)
    + 2 * Cardinality({h \in suspiciousHeaders : h \in req.headers})
    + (IF Len(req.ua) < 20 THEN 2 ELSE 0)
    + (IF req.ua # "" /\ ~\E text \in BROWSER_SIGNATURES : Test(text, req.ua) THEN 2 ELSE 0)

\* C15: for a classified request whose user agent matches no GOOD_BOTS
\* pattern, suspiciousScore is the sum of the applicable increments; botType is
\* bad, with isBot and a score of at least 5, exactly when a BOT_USER_AGENTS
\* pattern matched, and unknown with isBot = false otherwise.
C15_ScoreIsSum ==
    (lastOp.op = "request" /\ botInfo # NoBotInfo /\ ~MatchesGoodBot(request.ua)) =>
        /\ botInfo.suspiciousScore = Increments(request)
        /\ IF MatchesBadBot(request.ua)
           THEN botInfo.isBot /\ botInfo.botType = "bad" /\ botInfo.suspiciousScore >= 5
           ELSE ~botInfo.isBot /\ botInfo.botType = "unknown"

\* C15 witness: a short user agent of no list and without a browser token,
\* sent with two suspicious headers and no referer to a page path: 1 + 4 + 2 + 2.
C15_Witness ==
    /\ lastOp.op = "request"
    /\ request.ua = OkHttp
    /\ request.referer = "" /\ request.path = "/"
    /\ Cardinality(request.headers) = 2
    /\ botInfo = [isBot |-> FALSE, botType |-> "unknown", suspiciousScore |-> 9]
    /\ response.status = 200

(***************************************************************************)
(* Claims about the request log                                            *)
(***************************************************************************)
\* C16: the in-memory log never holds more than MAX_LOGS entries, and they are
\* the entries recorded last, in the order they were recorded.
C16_RingBufferFifo ==
    /\ Len(requestLogs) <= MAX_LOGS
    /\ requestLogs = LastN(finished, MAX_LOGS)

\* C16 witness: more than MAX_LOGS responses have finished, not in the order
\* the requests came, and the first recorded entry has been evicted.
C16_Witness ==
    /\ Len(finished) = MAX_LOGS + 1
    /\ finished[1].id # 1
    /\ Len(requestLogs) = MAX_LOGS
    /\ requestLogs[1] = finished[2]

Min(a, b) == IF a < b THEN a ELSE b

\* C17: getRecentLogs(limit) with limit >= 0 returns the last
\* min(limit, stored) entries recorded, most recent first, and leaves the
\* stored log as it was.
C17_RecentLogsExact ==
    (reply.op = "getRecentLogs" /\ reply.count >= 0) =>
        /\ Len(reply.logs) = Min(reply.count, Len(reply.of))
        /\ reply.logs = Reverse(LastN(reply.of, reply.count))
        /\ requestLogs = LastN(finished, MAX_LOGS)

\* C18: GET /logs?limit=N never returns more than LOGS_CAP entries, whatever
\* the text of N, and for a positive number N returns the most recent
\* min(N, LOGS_CAP) entries, most recent first.
C18_LogsAtMostCap ==
    reply.op = "logs" =>
        /\ Len(reply.logs) <= LOGS_CAP
        /\ (~parseInt(reply.arg).nan /\ parseInt(reply.arg).value > 0) =>
               reply.logs = Reverse(LastN(reply.of, Min(parseInt(reply.arg).value, LOGS_CAP)))

Entries(seq) == {seq[i] : i \in 1..Len(seq)}

\* C19: an append is started only for a response that has finished; an entry
\* whose append failed is named in the error output only: its write is not
\* started again, it is not in the file, and it is in the in-memory log as long
\* as it is among the last MAX_LOGS recorded; the requests in progress and the
\* recorded entries are those the finish handler left.
C19_AppendBestEffort ==
    /\ \A e \in appends \cup Entries(logFile) : e \in Entries(finished) /\ e.id \notin open
    /\ \A e \in Entries(finished) :
           e.id \in writeErrors =>
               /\ e \notin appends
               /\ e \notin Entries(logFile)
               /\ e \in Entries(LastN(finished, MAX_LOGS)) => e \in Entries(requestLogs)
    /\ \A e \in Entries(finished) :
           e \in appends \/ e \in Entries(logFile) \/ e.id \in writeErrors
    /\ requestLogs = LastN(finished, MAX_LOGS)

\* C19 witness: the append of the first finished entry has failed, a later
\* entry has been written, no append is pending, and the failed entry is still
\* in the in-memory log.
C19_Witness ==
    /\ Len(finished) >= 2
    /\ finished[1].id \in writeErrors
    /\ finished[2] \in Entries(logFile)
    /\ appends = {}
    /\ finished[1] \in Entries(requestLogs)
    /\ open # {}

Suspicious(logs) ==
    Cardinality({i \in 1..Len(logs) : logs[i].statusCode = 403 \/ logs[i].statusCode = 429})

\* C20: GET /status reports warning exactly when more than WARNING_THRESHOLD
\* of the STATUS_WINDOW most recently logged requests have status 403 or 429,
\* secure otherwise, and suspiciousRequests is that number.
C20_WarningIffOverThreshold ==
    reply.op = "status" =>
        LET n == Suspicious(LastN(reply.of, STATUS_WINDOW))
        IN /\ reply.count = n
           /\ reply.status = IF n > WARNING_THRESHOLD THEN "warning" ELSE "secure"

\* C20 witness: the log holds more entries than the window, with one more
\* 403 / 429 among the last STATUS_WINDOW than the threshold and a 403 before
\* them, and the status is warning.
C20_Witness ==
    /\ reply.op = "status"
    /\ reply.of = requestLogs
    /\ Len(requestLogs) = STATUS_WINDOW + 1
    /\ requestLogs[1].statusCode = 403
    /\ Suspicious(LastN(requestLogs, STATUS_WINDOW)) = WARNING_THRESHOLD + 1
    /\ \E i \in 2..Len(requestLogs) : requestLogs[i].statusCode = 429
    /\ reply.status = "warning"

(***************************************************************************)
(* Claims about the browser-side action gate and humanness score           *)
(***************************************************************************)
\* The honeypot field was unset when the last checkAction was called.
FieldEmpty == verdict.field \in {NoField, ""}

\* C21: for a sensitive action checkAction returns allowed only if the
\* rate-limit check passed, the honeypot field was empty and the humanness
\* score was at least 35; with the first two and a score below 35 it returns
\* not allowed with requiresCaptcha = true; for any other action type the
\* first two alone give allowed, whatever the score.
C21_SensitiveActionGate ==
    (verdict.actionType # "none") =>
        /\ (verdict.actionType \in {"bulk_process", "export_all", "delete_all"}) =>
              /\ verdict.allowed =>
                    verdict.rateOk /\ FieldEmpty /\ verdict.score >= 35
              /\ (verdict.rateOk /\ FieldEmpty /\ verdict.score < 35) =>
                    ~verdict.allowed /\ verdict.requiresCaptcha
        /\ (verdict.actionType \notin {"bulk_process", "export_all", "delete_all"}) =>
              /\ (verdict.rateOk /\ FieldEmpty) => verdict.allowed
              /\ ~verdict.requiresCaptcha

\* delete_all asked with the limiter passing, the field present and empty and
\* a score of 30 (keyboard and scroll): a captcha is required.
C21_Witness ==
    /\ verdict.actionType = "delete_all"
    /\ verdict.rateOk
    /\ verdict.field = ""
    /\ verdict.score = 30
    /\ ~verdict.allowed
    /\ verdict.requiresCaptcha
    /\ verdict.reason = "verification_required"

\* The weight the specification gives each check.
Weight ==
    [c \in CheckNames |->
        CASE c = "mouseMovement" -> 20
          [] c = "keyboardActivity" -> 15
          [] c = "scrollActivity" -> 15
          [] c = "touchActivity" -> 20
          [] c = "timeOnPage" -> 20
          [] c = "sessionValid" -> 10]

RECURSIVE WeightOf(_)
WeightOf(set) ==
    IF set = {} THEN 0
    ELSE LET c == CHOOSE x \in set : TRUE IN Weight[c] + WeightOf(set \ {c})

\* C22: after any sequence of activity events BotDetector.score is the
\* weighted sum 20/15/15/20/20/10 of the checks that are set, lies in 0..100
\* and never decreases; getConfidence gives low below 40, medium for 40..69,
\* high from 70; isHuman holds exactly from 35.
C22_ScoreIsWeightedSum ==
    /\ [](/\ score = WeightOf({c \in CheckNames : checks[c]})
          /\ score \in 0..100
          /\ getConfidence(score) =
                (IF score < 40 THEN "low" ELSE IF score <= 69 THEN "medium" ELSE "high")
          /\ isHuman(score) <=> score >= 35)
    /\ [][score' >= score]_vars

\* Every check set, the mouse check by the sixth move, the dwell check by its
\* timer: score 100.
C22_Witness ==
    /\ \A c \in CheckNames : checks[c]
    /\ mouseMoves = MOUSE_MOVES + 1
    /\ dwellDue = null
    /\ score = 100
    /\ getConfidence(score) = "high"

(***************************************************************************)
(* Claims about the protected routes                                       *)
(***************************************************************************)
\* The last event of the server is a call of the protected route.
JustCalled(route) ==
    /\ posted.route = route
    /\ lastOp.op \in {route, "refused"}
    /\ lastOp.ip = posted.body.ip

\* The registry is as the last call found it.
RegistryUntouched ==
    /\ blockedIPs = posted.before.blockedIPs
    /\ timers = posted.before.timers

\* The posted addresses that are of IPv4 or loopback form.
WellFormedIPs == {"203.0.113.5", "::1"}

\* C23: POST /api/security/block with a missing ip, or with an ip that is not
\* of IPv4 / loopback form, answers 400 and leaves the registry unchanged;
\* with a valid ip it blocks that ip for the given duration, or for 300 000 ms
\* when no duration is given (calls that passed verifyToken).
C23_BlockValidated ==
    (JustCalled("block") /\ posted.ran) =>
        /\ (posted.body.ip \notin WellFormedIPs) =>
              posted.status = 400 /\ RegistryUntouched
        /\ (posted.body.ip \in WellFormedIPs) =>
              /\ posted.status = 200
              /\ posted.body.ip \in blockedIPs
              /\ [ip |-> posted.body.ip,
                  due |-> posted.at + (IF posted.body.duration = null THEN 300000
                                       ELSE posted.body.duration)] \in timers

\* How the specification classes the token of the last call.
TokenKind ==
    IF Len(posted.auth) < 2 THEN "missing"
    ELSE IF posted.auth[2] = ForgedToken THEN "invalid"
    ELSE IF posted.auth[2] = StaleToken /\ posted.at >= 500 THEN "expired"
    ELSE "valid"

\* C24: on a protected route a call with an invalid token and a call with an
\* expired token get the same status and the same body (403, 'Invalid or
\* expired token'); in both cases, and with a missing token (401), the
\* handler is not run and the registry is unchanged.
C24_AuthErrorUniform ==
    \A route \in {"block", "unblock"} :
        JustCalled(route) =>
            /\ (TokenKind \in {"invalid", "expired"}) =>
                  /\ posted.status = 403
                  /\ posted.error = "Invalid or expired token"
                  /\ ~posted.ran
                  /\ RegistryUntouched
            /\ (TokenKind = "missing") =>
                  /\ posted.status = 401
                  /\ ~posted.ran
                  /\ RegistryUntouched
            /\ (TokenKind = "valid") => posted.ran

\* A token that has expired by 500 ms is presented to unblock the client's
\* address while it is blocked: 403, and the address stays blocked.
C24_Witness ==
    /\ JustCalled("unblock")
    /\ posted.auth = <<"Bearer", StaleToken>>
    /\ posted.at = 500
    /\ posted.status = 403
    /\ posted.body.ip \in IPs
    /\ posted.body.ip \in blockedIPs

(***************************************************************************)
(* Claims about the RateLimiter as a window counter                        *)
(***************************************************************************)
\* The instants and the answers of the checkLimit calls since the last reset.
CallTimes == [i \in 1..Len(calls) |-> calls[i].t]
CallAnswers == [i \in 1..Len(calls) |-> calls[i].allowed]

\* The limiter of the specification: a count and a window start per key, and
\* the escalated block.  A fresh limiter has no window yet.
FreshWindow == [count |-> 0, windowStart |-> null, blockedUntil |-> null]

FixedWindowCheck(w, t) ==
    LET w1 == IF w.windowStart = null \/ t - w.windowStart >= RATE_LIMIT_WINDOW
              THEN [w EXCEPT !.count = 0, !.windowStart = t] ELSE w
    IN IF w1.blockedUntil # null /\ w1.blockedUntil > t
       THEN [w |-> w1, allowed |-> FALSE]
       ELSE LET w2 == IF w1.blockedUntil # null
                      THEN [count |-> 0, windowStart |-> t, blockedUntil |-> null]
                      ELSE w1
            IN IF w2.count + 1 > MAX_REQUESTS_PER_WINDOW
               THEN [w |-> [w2 EXCEPT !.count = @ + 1,
                                      !.blockedUntil = t + BLOCK_DURATION],
                     allowed |-> FALSE]
               ELSE [w |-> [w2 EXCEPT !.count = @ + 1], allowed |-> TRUE]

RECURSIVE FixedWindowRun(_, _)
FixedWindowRun(w, ts) ==
    IF ts = <<>> THEN <<>>
    ELSE LET r == FixedWindowCheck(w, Head(ts))
         IN <<r.allowed>> \o FixedWindowRun(r.w, Tail(ts))

\* A limiter that keeps the instants of the checks it allowed: a check is
\* refused while a block lasts; otherwise it is allowed when fewer than
\* MAX_REQUESTS_PER_WINDOW allowed checks lie less than a window before it,
\* and a refusal starts a block of BLOCK_DURATION.
FreshLog == [stamps |-> <<>>, blockedUntil |-> null]

SlidingLogCheck(l, t) ==
    IF l.blockedUntil # null /\ t < l.blockedUntil
    THEN [l |-> l, allowed |-> FALSE]
    ELSE LET kept == IF l.blockedUntil # null THEN <<>> ELSE l.stamps
             live == SelectSeq(kept, LAMBDA x : t - x < RATE_LIMIT_WINDOW)
         IN IF Len(live) >= MAX_REQUESTS_PER_WINDOW
            THEN [l |-> [stamps |-> live, blockedUntil |-> t + BLOCK_DURATION],
                  allowed |-> FALSE]
            ELSE [l |-> [stamps |-> Append(live, t), blockedUntil |-> null],
                  allowed |-> TRUE]

RECURSIVE SlidingLogRun(_, _)
SlidingLogRun(l, ts) ==
    IF ts = <<>> THEN <<>>
    ELSE LET r == SlidingLogCheck(l, Head(ts))
         IN <<r.allowed>> \o SlidingLogRun(r.l, Tail(ts))

CountOf(seq, x) == Cardinality({i \in 1..Len(seq) : seq[i] = x})

\* Every recorded request was made less than a window before instant t.
AllWithinWindow(reqs, t) ==
    \A i \in 1..Len(reqs) : t - reqs[i] < RATE_LIMIT_WINDOW

\* C26 as claimed: after every checkLimit or getStatus call the recorded
\* requests are only those made less than RATE_LIMIT_WINDOW before the call,
\* they are at most MAX_REQUESTS_PER_WINDOW, and a rejected check is not
\* itself recorded.
C26_RecordedWithinWindow ==
    [][(CheckLimit \/ GetStatus) =>
          /\ AllWithinWindow(requests', now)
          /\ Len(requests') <= MAX_REQUESTS_PER_WINDOW
          /\ (CheckLimit /\ ~result'.allowed) =>
                CountOf(requests', now) = CountOf(requests, now)]_vars

\* C26, amended: the same after every getStatus call and every checkLimit
\* call that does not find a block in force; a checkLimit call made during a
\* block leaves the recorded requests as they are, whatever their age.
C26_RecordedWithinWindowUnlessBlocked ==
    [][(CheckLimit \/ GetStatus) =>
          /\ Len(requests') <= MAX_REQUESTS_PER_WINDOW
          /\ (GetStatus \/ result'.reason # "blocked") =>
                AllWithinWindow(requests', now)
          /\ (CheckLimit /\ result'.reason = "blocked") => requests' = requests
          /\ (CheckLimit /\ ~result'.allowed) =>
                CountOf(requests', now) = CountOf(requests, now)
          /\ (CheckLimit /\ result'.allowed) =>
                CountOf(requests', now) = CountOf(requests, now) + 1]_vars

\* A check a window or more into a block: it is refused as blocked and the
\* limiter still holds the requests recorded before the block.
C26_Witness ==
    /\ result.op = "checkLimit"
    /\ result.reason = "blocked"
    /\ now = LastCall.t
    /\ Len(requests) = MAX_REQUESTS_PER_WINDOW
    /\ \A i \in 1..Len(requests) : now - requests[i] >= RATE_LIMIT_WINDOW

\* C27: while the limiter is blocked and blockedUntil > now, a check returns
\* not allowed with retryAfter = ceil((blockedUntil - now) / 1000) and leaves
\* blockedUntil unchanged; at blockedUntil <= now the check clears the block
\* state and the window before it evaluates the request, which is then the
\* only one recorded.
C27_BlockedCheck ==
    [][CheckLimit =>
          /\ (blocked /\ blockedUntil > now) =>
                /\ ~result'.allowed
                /\ 1000 * (result'.retryAfter - 1) < blockedUntil - now
                /\ blockedUntil - now <= 1000 * result'.retryAfter
                /\ blocked' /\ blockedUntil' = blockedUntil
          /\ (blocked /\ blockedUntil <= now) =>
                /\ ~blocked' /\ blockedUntil' = null
                /\ requests' = <<now>>
                /\ result'.allowed
                /\ result'.remaining = MAX_REQUESTS_PER_WINDOW - 1]_vars

\* A check one millisecond before the end of the block: refused with
\* retryAfter = 1, the end of the block as it was.
C27_Witness ==
    /\ result.op = "checkLimit"
    /\ result.reason = "blocked"
    /\ blocked
    /\ blockedUntil - LastCall.t = 1
    /\ result.retryAfter = 1

(***************************************************************************)
(* Claims about the registry and the chain under re-blocks and concurrency *)
(***************************************************************************)
\* C28: a block entry is removed only by its own expiry or by an unblock: an
\* ip that was not blocked (never, no longer, or after an unblock) and is
\* then blocked for D ms is in the registry at every instant before D ms
\* have passed since that block, unless it is unblocked; this holds after
\* block, unblock, block too, where the first block's expiry falls inside
\* the second block.
C28_BlockCoversItsDuration ==
    \A ip \in IPs :
        (/\ lastBlock[ip].at # null
         /\ ~lastBlock[ip].re
         /\ now < lastBlock[ip].at + lastBlock[ip].dur) => ip \in blockedIPs

\* The response of the request botDetection evaluated last.
LastEvaluated == CHOOSE r \in responses : r.id = started

\* The requests botDetection counted before the last one, since the start of
\* the rapid window the last one found.
CountedBefore ==
    {r \in responses :
        /\ r.id # 0 /\ r.id < started
        /\ r.by # "blocklist"
        /\ r.t >= pre.first}

\* C29: under any interleaving of requests in progress together, the rapid
\* decision is taken on a count that includes every request evaluated before
\* it: of the requests of one ip evaluated within RAPID_WINDOW of the start
\* of a rapid window the first rapidRequests pass the rapid check, the next
\* one is answered 429 and blocks the ip, and no request evaluated before
\* the end of that block is accepted.
C29_DecisionsSeeEarlierRequests ==
    (lastOp.op = "request") =>
        LET ip == response.ip
            inWindow == pre.t - pre.first < RAPID_WINDOW
        IN /\ ~pre.blocked => pre.count = Cardinality(CountedBefore)
           /\ (~pre.blocked /\ inWindow /\ Cardinality(CountedBefore) < rapidRequests) =>
                 response.status = 200
           /\ (~pre.blocked /\ inWindow /\ Cardinality(CountedBefore) = rapidRequests) =>
                 /\ response.status = 429 /\ response.by = "rapid"
                 /\ ip \in blockedIPs
           /\ (/\ lastBlock[ip].at # null
               /\ LastEvaluated.t < lastBlock[ip].at + lastBlock[ip].dur) =>
                 response.status # 200
           /\ pre.blocked => response.status = 403

\* Requests evaluated in another order than they arrived: the one evaluated
\* after rapidRequests others blocked the ip, and the last one, which
\* arrived before it, is refused by the block check.
C29_Witness ==
    /\ lastOp.op = "request"
    /\ response.by = "blocklist"
    /\ \E r \in responses :
          /\ r.by = "rapid" /\ r.id = rapidRequests + 1
          /\ r.n > LastEvaluated.n
    /\ Cardinality({r \in responses : r.status = 200}) = rapidRequests

\* C30: every request that got a response, one refused with 403 or 429 by a
\* stage of the chain included, has exactly one entry in the log once its
\* response has finished, with the status code of that response, and none
\* before.
C30_EveryResponseLogged ==
    \A r \in responses :
        LET made == {i \in 1..Len(finished) : finished[i].id = r.id}
        IN IF r.id # 0 /\ r.id \in open
           THEN made = {}
           ELSE /\ Cardinality(made) = 1
                /\ \A i \in made : finished[i].statusCode = r.status

(***************************************************************************)
(* Claims about the order of the recent logs                               *)
(***************************************************************************)
\* logEntry.timestamp: the instant requestLogger saw the request
Timestamp(e) == entries[e.id].timestamp

\* The instant the response of the entry finished: startTime + responseTime.
FinishedAt(e) == entries[e.id].timestamp + entries[e.id].responseTime

\* C31: the sequence returned by getRecentLogs has non-increasing timestamps,
\* also when a request that arrived earlier finishes after one that arrived
\* later.
C31_RecentByTimestamp ==
    reply.op = "getRecentLogs" =>
        \A i, j \in 1..Len(reply.logs) :
            i < j => Timestamp(reply.logs[i]) >= Timestamp(reply.logs[j])

\* C31, as the code has it: the sequence returned by getRecentLogs is most
\* recently finished first. The instants at which the responses finished are
\* non-increasing along the result, and the timestamps are non-increasing
\* among entries whose requests were not in progress at the same time.
C31_RecentByFinish ==
    reply.op = "getRecentLogs" =>
        \A i, j \in 1..Len(reply.logs) :
            i < j =>
                /\ FinishedAt(reply.logs[i]) >= FinishedAt(reply.logs[j])
                /\ FinishedAt(reply.logs[j]) <= Timestamp(reply.logs[i])
                      => Timestamp(reply.logs[i]) >= Timestamp(reply.logs[j])

\* Two requests overlapped, the earlier one finished last, and the query
\* returned it first.
C31_Witness ==
    /\ reply.op = "getRecentLogs"
    /\ Len(reply.logs) >= 2
    /\ Timestamp(reply.logs[1]) < Timestamp(reply.logs[2])
    /\ FinishedAt(reply.logs[1]) > FinishedAt(reply.logs[2])

(***************************************************************************)
(* Claims about the request statistics                                     *)
(***************************************************************************)
\* The entries of the log the statistics were taken of whose timestamp is
\* less than span before the call.
Within(span) == {i \in 1..Len(reply.of) : reply.at - reply.of[i].timestamp < span}

RECURSIVE SumOfMap(_)
SumOfMap(m) ==
    IF DOMAIN m = {} THEN 0
    ELSE LET k == CHOOSE x \in DOMAIN m : TRUE IN m[k] + SumOfMap(Without(m, k))

\* C32: getRequestStats is recomputed from the ring buffer at each call and
\* does not change it: lastHour and lastDay count the entries of the last hour
\* and of the last 24 hours, uniqueVisitors the distinct IPs of the last day,
\* statusCodes is a histogram of the last day whose counts sum to lastDay,
\* topPaths has at most TOP_PATHS paths in descending frequency, totalRequests
\* is the size of the buffer, and lastHour <= lastDay <= totalRequests <= MAX_LOGS.
C32_StatsFromBuffer ==
    /\ [](reply.op = "stats" =>
            LET st == reply.stats
                day == Within(86400000)
            IN /\ st.totalRequests = Len(reply.of)
               /\ st.lastHour = Cardinality(Within(3600000))
               /\ st.lastDay = Cardinality(day)
               /\ st.uniqueVisitors = Cardinality({reply.of[i].ip : i \in day})
               /\ \A c \in DOMAIN st.statusCodes :
                     st.statusCodes[c] =
                        Cardinality({i \in day : reply.of[i].statusCode = c})
               /\ SumOfMap(st.statusCodes) = st.lastDay
               /\ Len(st.topPaths) <= TOP_PATHS
               /\ \A k \in 1..Len(st.topPaths) :
                     /\ st.topPaths[k].count =
                           Cardinality({i \in day : reply.of[i].path = st.topPaths[k].path})
                     /\ \A l \in 1..Len(st.topPaths) :
                           /\ k < l => st.topPaths[k].count >= st.topPaths[l].count
                           /\ k # l => st.topPaths[k].path # st.topPaths[l].path
                     /\ \A i \in day :
                           Cardinality({j \in day : reply.of[j].path = reply.of[i].path})
                              > st.topPaths[k].count
                           => \E l \in 1..Len(st.topPaths) :
                                 st.topPaths[l].path = reply.of[i].path
               /\ st.lastHour <= st.lastDay
               /\ st.lastDay <= st.totalRequests
               /\ st.totalRequests <= MAX_LOGS)
    /\ [][reply'.op = "stats" /\ reply' # reply
             => /\ UNCHANGED <<requestLogs, entries>>
                /\ reply'.of = LoggedEntries /\ reply'.at = now]_vars

\* The statistics of a log with entries of the last day older than an hour
\* and entries of the last hour, of two status codes and of more paths than
\* topPaths holds.
C32_Witness ==
    /\ reply.op = "stats"
    /\ reply.stats.lastHour > 0
    /\ reply.stats.lastHour < reply.stats.lastDay
    /\ Cardinality(DOMAIN reply.stats.statusCodes) > 1
    /\ Cardinality({reply.of[i].path : i \in Within(86400000)}) > TOP_PATHS

(***************************************************************************)
(* Claims about the first event of a date                                  *)
(***************************************************************************)
\* The server has handled a POST /track request in this step.
TrackHandled == total(inflight', TrackInputs) < total(inflight, TrackInputs)

\* A method of the browser's Analytics object has been called in this step.
MirrorCalled == mirrorCalls' = mirrorCalls + 1

\* C33: for every event type, ingesting an event on a date that has no bucket
\* yet creates that date's bucket and applies the event without error, in the
\* server's aggregator (POST /track) and in the browser's Analytics object
\* (init, trackToolUsage, trackFileProcessed, trackError).
C33_EventCreatesBucket ==
    [][/\ TrackHandled =>
            /\ outcome'.status = 200
            /\ today' \in DOMAIN getAnalytics(file').data.dailyStats
       /\ MirrorCalled =>
            /\ mirrorOutcome'.ok
            /\ today' \in DOMAIN local'.analytics.dailyStats]_vars

(***************************************************************************)
(* Claims about the analytics snapshot                                     *)
(***************************************************************************)
\* The response of GET /api/analytics on the present store.
Snapshot == snapshot(getAnalytics(file).data, today)

\* The calendar dates of the rollup: today and the ROLLUP_DAYS - 1 before it.
RollupDays == {d \in Days : d <= today /\ today - d < ROLLUP_DAYS}

\* The sum of a counter over the stored buckets of the rollup dates.
RECURSIVE StoredSum(_, _)
StoredSum(field, d) ==
    IF d < 0 THEN 0
    ELSE (IF d \in RollupDays /\ d \in DOMAIN file.dailyStats
          THEN file.dailyStats[d][field] ELSE 0)
         + StoredSum(field, d - 1)

\* The number of handled events of a kind on the rollup dates.
RECURSIVE HandledSum(_, _)
HandledSum(kind, d) ==
    IF d < 0 THEN 0
    ELSE (IF d \in RollupDays THEN HandledOf(kind, d) ELSE 0) + HandledSum(kind, d - 1)

\* Position of a tool among the keys of toolUsage, in insertion order.
InsertedAt(tool) == CHOOSE i \in 1..Len(file.toolUsage) : file.toolUsage[i].tool = tool

\* The ranking of the snapshot: at most TOP_TOOLS tools with their lifetime
\* counts, descending, equal counts in insertion order, no tool left out that
\* should come before one that is in.
RankingRight(top) ==
    /\ Len(top) = IF Len(file.toolUsage) < TOP_TOOLS THEN Len(file.toolUsage) ELSE TOP_TOOLS
    /\ \A k \in 1..Len(top) :
          /\ HasTool(file.toolUsage, top[k].tool)
          /\ top[k].count = ToolCount(file.toolUsage, top[k].tool)
          /\ \A l \in 1..Len(top) :
                k < l =>
                   \/ top[k].count > top[l].count
                   \/ /\ top[k].count = top[l].count
                      /\ InsertedAt(top[k].tool) < InsertedAt(top[l].tool)
          /\ \A i \in 1..Len(file.toolUsage) :
                (\A l \in 1..Len(top) : top[l].tool # file.toolUsage[i].tool) =>
                   \/ file.toolUsage[i].count < top[k].count
                   \/ /\ file.toolUsage[i].count = top[k].count
                      /\ i > InsertedAt(top[k].tool)

HoldsPattern(logEntry) ==
    LET testString == logEntry.path \o logEntry.query \o logEntry.userAgent
    IN \/ \E text \in {"../", "<script", "javascript:", "or 1=1", "eval(", "wp-admin",
                       "phpmyadmin"} : Test(text, testString)
       \/ TestThen("union", "select", testString)
       \/ TestAtEnd(".php", logEntry.path)
       \/ TestAtEnd(".exe", logEntry.path)

\* What HoldsPattern gives on each entry of the requests that are sent.
HoldsPatternTable ==
    [e \in {NewLogEntry(req, 0) : req \in SuspectRequests} |-> HoldsPattern(e)]

\* C35: a completed request is flagged whenever path + serialized query +
\* userAgent holds a pattern of the library ('../', '<script', 'javascript:',
\* 'union...select', 'or 1=1', 'eval(', 'wp-admin', 'phpmyadmin', or a path
\* ending in '.php' or '.exe', whatever the user agent), and the flag changes
\* nothing of the response.
C35_PatternsFlagged ==
    \A i \in 1..Len(finished) :
        LET e == [entries[finished[i].id] EXCEPT !.timestamp = 0, !.responseTime = null]
        IN HoldsPatternTable[e] => finished[i].id \in warnings

(***************************************************************************)
(* Claims about the login lockout                                          *)
(***************************************************************************)
\* C36: under concurrent login requests no failed attempt is lost: in every
\* interleaving of the read of the admin credential, the password comparison
\* and the write back, at most MAX_LOGIN_ATTEMPTS wrong passwords are compared
\* between two resets of loginAttempts, the last of them locking the account.
C36_NoLostFailure ==
    /\ evaluated <= MAX_LOGIN_ATTEMPTS
    /\ evaluated = MAX_LOGIN_ATTEMPTS => adminFile.lockedUntil # null
    /\ adminFile.loginAttempts = evaluated

\* The last login request has been answered by the handler and carried a password.
Attempted ==
    /\ logins > 0
    /\ comparing = {}
    /\ loginReply.n = logins
    /\ loginReply.by = "handler"
    /\ loginReply.status # 400

\* C37: in a sequential run of login attempts, the MAX_LOGIN_ATTEMPTS-th
\* consecutive failure locks the credential for LOCK_MS; while lockedUntil is
\* in the future every attempt is answered 429 with no token and the
\* credential is left as it was; loginAttempts never exceeds
\* MAX_LOGIN_ATTEMPTS, is 0 after a successful login, and is set back to 0
\* (with the lock cleared) by the first attempt that finds the lock expired.
C37_SequentialLockout ==
    /\ [](/\ adminFile.loginAttempts <= MAX_LOGIN_ATTEMPTS
          /\ adminFile.loginAttempts = evaluated
          /\ (evaluated = MAX_LOGIN_ATTEMPTS) <=> (adminFile.lockedUntil # null)
          /\ (Attempted /\ ~IsLocked(loginReply.found, loginReply.at)) =>
                /\ (loginReply.status = 429) <=> (evaluated = MAX_LOGIN_ATTEMPTS)
                /\ loginReply.status = 429 =>
                      adminFile.lockedUntil = loginReply.at + LOCK_MS
                /\ loginReply.status = 401 =>
                      loginReply.attemptsRemaining = MAX_LOGIN_ATTEMPTS - evaluated
                /\ loginReply.status = 200 =>
                      /\ loginReply.token
                      /\ adminFile.loginAttempts = 0
                      /\ adminFile.lockedUntil = null
          /\ (Attempted /\ IsLocked(loginReply.found, loginReply.at)) =>
                /\ loginReply.status = 429
                /\ ~loginReply.token
                /\ adminFile = loginReply.found)
    /\ [][(comparing = {} /\ comparing' # {} /\ adminFile.lockedUntil # null) =>
             /\ adminFile.lockedUntil <= now
             /\ adminFile'.loginAttempts = 0
             /\ adminFile'.lockedUntil = null]_vars

\* The fifth consecutive failure has locked the credential, a later attempt
\* has been turned away while the lock held.
C37_Witness ==
    /\ Attempted
    /\ evaluated = MAX_LOGIN_ATTEMPTS
    /\ IsLocked(loginReply.found, loginReply.at)
    /\ loginReply.at > loginReply.found.lockedUntil - LOCK_MS
    /\ loginReply.status = 429

(***************************************************************************)
(* Claims about the cleanup of ipRequestCounts                             *)
(***************************************************************************)
\* C38: the periodic cleanup of ipRequestCounts never changes a decision: for
\* every sequence of requests and cleanup runs, botDetection gives each request
\* the response it would give had the cleanup never run, and the same
\* addresses are blocked, until the same instants.
C38_CleanupUnseen ==
    /\ response = uncleanedRes
    /\ blockedIPs = uncleaned.blockedIPs
    /\ timers = uncleaned.timers

\* A cleanup has deleted the entry of an address, the address has come back
\* and has been turned away for rapid requests since.
C38_Witness ==
    /\ \E ip \in DOMAIN uncleaned.ipRequestCounts :
          /\ ip \in DOMAIN ipRequestCounts
          /\ uncleaned.ipRequestCounts[ip].lastRequest >= 2 * CLEANUP_INTERVAL
          /\ ip \in blockedIPs
    /\ DOMAIN ipRequestCounts # DOMAIN uncleaned.ipRequestCounts
    /\ response.status = 429

(***************************************************************************)
(* Claims about the counters of the analytics store                        *)
(***************************************************************************)
\* A stored count as a number: Number(null) is 0.
NumberOf(v) == IF v = null THEN 0 ELSE v

\* The sum of the values of a map of counts.
RECURSIVE TallyOfMap(_)
TallyOfMap(m) ==
    IF DOMAIN m = {} THEN 0
    ELSE LET k == CHOOSE x \in DOMAIN m : TRUE
         IN NumberOf(m[k]) + TallyOfMap(Without(m, k))

\* The sum of the counts of toolUsage.
RECURSIVE TallyOfUsage(_)
TallyOfUsage(usage) ==
    IF usage = <<>> THEN 0
    ELSE NumberOf(Head(usage).count) + TallyOfUsage(Tail(usage))

\* The sum of a field over the buckets of dailyStats.
RECURSIVE TallyOfDays(_, _)
TallyOfDays(stats, field) ==
    IF DOMAIN stats = {} THEN 0
    ELSE LET d == CHOOSE x \in DOMAIN stats : TRUE
         IN stats[d][field] + TallyOfDays(Without(stats, d), field)

\* C39: from the initial document and after any sequence of POST /track
\* requests, totalToolUses is the sum of the toolUsage counts, each day's
\* toolUses is the sum of its tools map, each day's pageViews is the sum of its
\* pages map and, while no bucket has been pruned, totalPageViews is the sum of
\* the daily pageViews and the size of uniqueVisitors is the sum of the daily
\* uniqueVisitors counters.
C39_TalliesAgree ==
    /\ file.totalToolUses = TallyOfUsage(file.toolUsage)
    /\ \A d \in DOMAIN file.dailyStats :
          /\ file.dailyStats[d].toolUses = TallyOfMap(file.dailyStats[d].tools)
          /\ file.dailyStats[d].pageViews = TallyOfMap(file.dailyStats[d].pages)
    /\ pruned = {} =>
          /\ file.totalPageViews = TallyOfDays(file.dailyStats, "pageViews")
          /\ Cardinality(file.uniqueVisitors.ids) =
                TallyOfDays(file.dailyStats, "uniqueVisitors")

(***************************************************************************)
(* Claims about Security.performAction                                     *)
(***************************************************************************)
\* C40: performAction invokes the callback only when checkAction allowed the
\* action or, for an action that required verification, after the captcha has
\* been answered correctly; never when the rate limiter rejected the check or
\* the honeypot field is filled; and at most once per performAction call.
C40_CallbackGuarded ==
    /\ \A c \in DOMAIN invoked :
          /\ invoked[c] > 0 =>
                \/ checked[c].ret.allowed
                \/ checked[c].ret.requiresCaptcha /\ c \in viaCaptcha
          /\ checked[c].ret.reason \in {"rate_limited", "blocked"} => invoked[c] = 0
          /\ isTriggered(checked[c].field) => invoked[c] = 0
          /\ invoked[c] <= 1
    /\ lastClick.fired # {} =>
          /\ lastClick.expected # null
          /\ lastClick.expected \in lastClick.typed

====
